---- MODULE Spec2Model ----
(***************************************************************************)
(* Model of InsightOS's tool-use orchestration: ClaudeClient.chat          *)
(* (agent/claude_client.py), ToolExecutor.execute_tool                     *)
(* (core/tool_executor.py) and MCPClient.call_tool with its reader thread  *)
(* (mcp_servers/client.py).                                                *)
(*                                                                         *)
(* Python strings are sequences of string pieces (a tool name is the       *)
(* sequence of its characters), so that f-strings, str() and split() are   *)
(* computed and not assumed.  Python dicts are sequences of key/value      *)
(* entries in insertion order; a value carries its Python type.            *)
(***************************************************************************)
EXTENDS Integers, Sequences, FiniteSets, TLC

\* ------------------------------------------------------------------------
\* Bounds of the model
\* ------------------------------------------------------------------------
\* largest max_tool_turns a caller passes
MaxTurns == 2
\* tool_use blocks the LLM requests over one chat invocation
MaxToolUses == 2
\* the same, in the specification with fairness
MaxLiveToolUses == 1

\* ------------------------------------------------------------------------
\* Strings
\* ------------------------------------------------------------------------
startswith(s, p) == Len(s) >= Len(p) /\ SubSeq(s, 1, Len(p)) = p

\* str.find: index of the first occurrence of the character c, 0 if none
find(s, c) ==
  IF \E i \in 1..Len(s) : s[i] = c
    THEN CHOOSE i \in 1..Len(s) : s[i] = c /\ \A j \in 1..(i - 1) : s[j] # c
    ELSE 0

\* str.split(sep, maxsplit)
RECURSIVE split(_, _, _)
split(s, sep, maxsplit) ==
  IF maxsplit = 0 \/ find(s, sep) = 0
    THEN <<s>>
    ELSE <<SubSeq(s, 1, find(s, sep) - 1)>>
           \o split(SubSeq(s, find(s, sep) + 1, Len(s)), sep, maxsplit - 1)

mcp_ == <<"m", "c", "p", "_">>
filesystem == <<"f", "i", "l", "e", "s", "y", "s", "t", "e", "m">>
memory == <<"m", "e", "m", "o", "r", "y">>
write_file == <<"w", "r", "i", "t", "e", "_", "f", "i", "l", "e">>
read_graph == <<"r", "e", "a", "d", "_", "g", "r", "a", "p", "h">>
search_documents ==
  <<"s", "e", "a", "r", "c", "h", "_", "d", "o", "c", "u", "m", "e", "n", "t", "s">>
list_indexed_files ==
  <<"l", "i", "s", "t", "_", "i", "n", "d", "e", "x", "e", "d", "_", "f", "i", "l", "e", "s">>
get_file_content ==
  <<"g", "e", "t", "_", "f", "i", "l", "e", "_", "c", "o", "n", "t", "e", "n", "t">>
get_file_info ==
  <<"g", "e", "t", "_", "f", "i", "l", "e", "_", "i", "n", "f", "o">>
delete_file == <<"d", "e", "l", "e", "t", "e", "_", "f", "i", "l", "e">>
mcp_x == mcp_ \o <<"x">>

\* the name get_tools exposes for tool t of server s
ExposedName(s, t) == mcp_ \o s \o <<"_">> \o t

\* ------------------------------------------------------------------------
\* Python values and dicts
\* ------------------------------------------------------------------------
PyNone == [t |-> "none", v |-> <<"None">>]
PyBool(b) == [t |-> "bool", v |-> IF b THEN <<"True">> ELSE <<"False">>]
PyStr(x) == [t |-> "str", v |-> x]
\* a JSON object or Python dict, held by its printed form
PyObj(x) == [t |-> "obj", v |-> x]
\* a non-empty list whose first item is the dict {"type": "text", "text": x}
PyTextList(x) == [t |-> "textlist", v |-> x]

\* str(value)
str(val) ==
  IF val.t = "textlist"
    THEN <<"[{'type': 'text', 'text': '">> \o val.v \o <<"'}]">>
    ELSE val.v

\* repr(value), as str(dict) prints the values of a dict
repr(val) == IF val.t = "str" THEN <<"'">> \o val.v \o <<"'">> ELSE str(val)

Entry(k, val) == [k |-> k, v |-> val]
Has(d, k) == \E i \in 1..Len(d) : d[i].k = k
Get(d, k, default) ==
  IF Has(d, k) THEN d[CHOOSE i \in 1..Len(d) : d[i].k = k].v ELSE default

\* str(dict): "{'k1': v1, 'k2': v2}"
RECURSIVE StrEntries(_)
StrEntries(d) ==
  IF d = <<>> THEN <<>>
  ELSE <<"'", d[1].k, "': ">> \o repr(d[1].v)
         \o (IF Len(d) > 1 THEN <<", ">> ELSE <<>>) \o StrEntries(Tail(d))
StrDict(d) == <<"{">> \o StrEntries(d) \o <<"}">>

\* ------------------------------------------------------------------------
\* core/tool_executor.py
\* ------------------------------------------------------------------------
_builtin_tools ==
  {search_documents, list_indexed_files, get_file_content, get_file_info}

ToolResult(tool_name, success, result, error) ==
  [tool_name |-> tool_name, success |-> success, result |-> result, error |-> error]

to_dict(r) ==
  << Entry("tool_name", PyStr(r.tool_name)), Entry("success", PyBool(r.success)),
     Entry("result", r.result), Entry("error", r.error) >>

\* what a call does: return a value or raise an exception with a message
Returns(val) == [exc |-> FALSE, msg |-> <<>>, val |-> val]
Raises(msg) == [exc |-> TRUE, msg |-> msg, val |-> PyNone]

\* message of the TypeError Python raises when MCPClient.call_tool is called
\* with the argument list ToolExecutor uses
CallToolTypeError ==
  <<"call_tool() missing 1 required positional argument: 'arguments'">>
BuiltinError == <<"got an unexpected keyword argument">>
BuiltinPayload == PyObj(<<"{'total_files': 0, 'files': []}">>)
PeerPayload == PyObj(<<"{'content': []}">>)

\* The collaborators of a ToolExecutor as far as execute_tool sees them:
\*   attached       self.mcp_client is not None
\*   list_raises    mcp_client.list_tools() raises (MCPClient's does)
\*   tools          the names mcp_client.list_tools() reports otherwise
\*   call_raises    mcp_client.call_tool(name, input) raises
\*   builtin_raises the built-in function raises (bad arguments, store error)
\*   indexed        the file the tool input names is in the index
NoPeer == [attached |-> FALSE, list_raises |-> FALSE, tools |-> {},
           call_raises |-> FALSE]

\* the filepath of the tool input
filepath == <<"/docs/report.txt">>

\* the dict _get_file_content returns
_get_file_content(indexed) ==
  IF ~indexed
    THEN << Entry("success", PyBool(FALSE)),
            Entry("error", PyStr(<<"File not indexed: ">> \o filepath)) >>
    ELSE << Entry("success", PyBool(TRUE)), Entry("filepath", PyStr(filepath)),
            Entry("content", PyStr(<<"chunk text">>)),
            Entry("num_chunks", PyObj(<<"1">>)), Entry("metadata", PyObj(<<"{}">>)) >>

\* the dict _get_file_info returns
_get_file_info(indexed) ==
  IF ~indexed
    THEN << Entry("success", PyBool(FALSE)),
            Entry("error", PyStr(<<"File not found in index: ">> \o filepath)) >>
    ELSE << Entry("success", PyBool(TRUE)), Entry("filepath", PyStr(filepath)),
            Entry("filename", PyStr(<<"report.txt">>)), Entry("file_type", PyStr(<<".txt">>)),
            Entry("file_size", PyObj(<<"10">>)), Entry("num_chunks", PyObj(<<"1">>)),
            Entry("timestamp", PyNone) >>

_execute_builtin_tool(tool_name, builtin_raises, indexed) ==
  IF tool_name \notin _builtin_tools
    THEN Raises(<<"Built-in tool not found: ">> \o tool_name)
  ELSE IF builtin_raises THEN Raises(BuiltinError)
  ELSE IF tool_name = get_file_content
    THEN Returns(PyObj(StrDict(_get_file_content(indexed))))
  ELSE IF tool_name = get_file_info
    THEN Returns(PyObj(StrDict(_get_file_info(indexed))))
  ELSE Returns(BuiltinPayload)

_is_mcp_tool(tool_name, peer) ==
  IF ~peer.attached THEN FALSE
  ELSE IF peer.list_raises THEN FALSE
  ELSE tool_name \in peer.tools

_execute_mcp_tool(tool_name, peer) ==
  IF ~peer.attached THEN Raises(<<"MCP client not available">>)
  ELSE IF peer.call_raises THEN Raises(CallToolTypeError)
  ELSE Returns(PeerPayload)

\* the try block of execute_tool: the ToolResult it returns, or the
\* exception that leaves it
execute_tool_try(tool_name, peer, builtin_raises, indexed) ==
  IF tool_name \in _builtin_tools THEN
    LET r == _execute_builtin_tool(tool_name, builtin_raises, indexed) IN
    IF r.exc THEN r
    ELSE Returns(ToolResult(tool_name, TRUE, r.val, PyNone))
  ELSE IF peer.attached /\ _is_mcp_tool(tool_name, peer) THEN
    LET r == _execute_mcp_tool(tool_name, peer) IN
    IF r.exc THEN r
    ELSE Returns(ToolResult(tool_name, TRUE, r.val, PyNone))
  ELSE
    Returns(ToolResult(tool_name, FALSE, PyNone,
                       PyStr(<<"Unknown tool: ">> \o tool_name)))

\* faulty variant: the except clause lets the exception out
execute_tool_reraise(tool_name, e) == e

\* the except clause of execute_tool
execute_tool_except(tool_name, e) ==
  Returns(ToolResult(tool_name, FALSE, PyNone, PyStr(e.msg)))

\* ToolExecutor.execute_tool
ToolExecutor_execute_tool(tool_name, peer, builtin_raises, indexed) ==
  LET r == execute_tool_try(tool_name, peer, builtin_raises, indexed) IN
  IF r.exc THEN execute_tool_except(tool_name, r) ELSE r

\* ------------------------------------------------------------------------
\* agent/claude_client.py: formatting of one tool result (chat, for body)
\* ------------------------------------------------------------------------
ErrorPrefix == <<"Error: ">>

\* the (is_success, content) pair computed from the result dict
ResultContent(result) ==
  IF Get(result, "success", PyNone) = PyBool(TRUE) THEN
    [is_success |-> TRUE,
     content |-> str(Get(result, "result",
                         Get(result, "message", PyStr(<<"Success">>))))]
  ELSE IF Has(result, "content") THEN
    [is_success |-> Get(result, "isError", PyBool(FALSE)) # PyBool(TRUE),
     content |-> Get(result, "content", PyNone).v]
  ELSE
    [is_success |-> TRUE, content |-> StrDict(result)]

\* the "content" of the tool_result block
FormatResult(result) ==
  LET rc == ResultContent(result) IN
  IF rc.is_success THEN rc.content ELSE ErrorPrefix \o rc.content

\* ------------------------------------------------------------------------
\* mcp_servers/client.py: results of call_tool
\* ------------------------------------------------------------------------
\* faulty variant: call_tool lets queue.Empty out, and the except clause of
\* ClaudeClient.execute_tool makes a dict of it (str(queue.Empty()) is "")
TimeoutEscapes ==
  << Entry("success", PyBool(FALSE)), Entry("error", PyStr(<<>>)) >>

TimeoutResult ==
  << Entry("success", PyBool(FALSE)), Entry("error", PyStr(<<"Timeout">>)) >>

\* the JSON-RPC error object of a peer, by its printed form
RpcError == PyObj(<<"{'code': -32602, 'message': 'Invalid params'}">>)

\* what the response line of a peer to a tools/call request may hold: a
\* result, a result flagged isError, or a JSON-RPC error
PeerBodies == {"result", "isError", "error"}

\* response.get("result", {}) of a line without "error"
ResponseResult(body) ==
  << Entry("content", PyTextList(IF body = "isError" THEN <<"EACCES">>
                                                      ELSE <<"written">>)),
     Entry("isError", PyBool(body = "isError")) >>

\* what call_tool returns for a response taken from its queue
CallToolResponse(body) ==
  IF body = "error"
    THEN << Entry("success", PyBool(FALSE)), Entry("error", RpcError) >>
    ELSE ResponseResult(body)

\* ------------------------------------------------------------------------
\* State
\* ------------------------------------------------------------------------
VARIABLES
  pc,                   \* position of the thread running ClaudeClient.chat
  conversation_history, \* the caller's list, passed to chat
  max_tool_turns,       \* chat's parameter
  messages,             \* chat's local message list
  turn_count, total_input_tokens, total_output_tokens,
  response,             \* the LLM response being handled
  tool_results,         \* tool_result blocks collected in this turn
  exec_results,         \* the dicts execute_tool returned in this turn
  ret,                  \* the dict chat returned
  servers,              \* MCPClient.servers: names of the running servers
  response_queues,      \* MCPClient.response_queues: request id -> queue
  request_id,           \* the request id of the call_tool in progress
  uuids,                \* request ids generated so far
  peer_in,              \* requests the peer has received and not answered
  peer_out,             \* lines on the peer's stdout, not yet read
  reader_pc, reader_response, \* the reader thread and the line it holds
  llm_calls,            \* history: LLM calls issued
  llm_input, llm_output, \* history: tokens reported by the responses received
  llm_stops,            \* history: stop_reason of every response received
  llm_error,            \* history: the error an LLM call raised, if any
  tool_uses_seen,       \* history: tool_use blocks received so far
  tool_execs,           \* history: calls of ClaudeClient.execute_tool
  te_in, te_out,        \* a direct use of ToolExecutor.execute_tool
  call, returned,       \* a direct call of another function, and its outcome
  conversation_memory,  \* a ConversationMemory: max_messages and its deque
  added,                \* history: every message given to the memory
  widget,               \* the ChatWidget's fields
  workers,              \* the ChatWorker threads started so far
  disk,                 \* the files of the indexed directory: path -> file
  collection,           \* the ChromaDB collection: the documents stored
  batch,                \* the index_directory call in progress, if any
  latest                \* history: chunks of each path's last successful index_file

vars ==
  << pc, conversation_history, max_tool_turns, messages, turn_count,
     total_input_tokens, total_output_tokens, response, tool_results,
     exec_results, ret, servers, response_queues, request_id, uuids, peer_in,
     peer_out, reader_pc, reader_response, llm_calls, llm_input, llm_output,
     llm_stops, llm_error,
     tool_uses_seen, tool_execs, te_in, te_out, call, returned,
     conversation_memory, added, widget, workers,
     disk, collection, batch, latest >>

chat_vars ==
  << conversation_history, max_tool_turns, messages, turn_count,
     total_input_tokens, total_output_tokens, response, tool_results,
     exec_results, ret >>
mcp_vars == << servers, response_queues, request_id, uuids >>
peer_vars == << peer_in, peer_out >>
reader_vars == << reader_pc, reader_response >>
history_vars ==
  << llm_calls, llm_input, llm_output, llm_stops, llm_error, tool_uses_seen,
     tool_execs >>
te_vars == << te_in, te_out >>
call_vars == << call, returned >>
\* what a run of chat leaves alone
memory_vars == << conversation_memory, added >>
widget_vars == << widget, workers >>
index_vars == << disk, collection, batch, latest >>
object_vars == << memory_vars, widget_vars, index_vars >>
unit_vars == << te_vars, call_vars, object_vars >>

\* no ConversationMemory in use, and a ChatWidget nobody touches
NoMemory == [max_messages |-> 0, messages |-> <<>>]
NoWidget == [used |-> FALSE]
NoBatch == [active |-> FALSE]
IndexIdle ==
  /\ disk = <<>> /\ collection = {} /\ batch = NoBatch /\ latest = <<>>
ObjectsIdle ==
  /\ conversation_memory = NoMemory /\ added = <<>>
  /\ widget = NoWidget /\ workers = <<>>
  /\ IndexIdle
\* what a direct call of a function leaves alone
client_vars ==
  << pc, chat_vars, mcp_vars, peer_vars, reader_vars, history_vars >>

\* ------------------------------------------------------------------------
\* Messages and LLM responses
\* ------------------------------------------------------------------------
TextBlock(x) == [type |-> "text", id |-> 0, name |-> <<>>, content |-> x]
ToolUseBlock(id, name) ==
  [type |-> "tool_use", id |-> id, name |-> name, content |-> <<>>]
ToolResultBlock(tool_use_id, content) ==
  [type |-> "tool_result", id |-> tool_use_id, name |-> <<>>, content |-> content]

\* {"role": role, "content": text} and {"role": role, "content": blocks}
TextMessage(role, x) == [role |-> role, text |-> x, blocks |-> <<>>]
BlockMessage(role, blocks) == [role |-> role, text |-> <<>>, blocks |-> blocks]

NoResponse == [stop_reason |-> "", content |-> <<>>]
NoReturn ==
  [content |-> <<>>, stop_reason |-> "", turns |-> 0,
   tokens_used |-> [input |-> 0, output |-> 0]]

\* token usages an LLM response may report
Usages == {[input |-> 3, output |-> 1], [input |-> 2, output |-> 5]}

\* tool names the LLM may ask for
ToolNames ==
  { list_indexed_files,                  \* built-in
    delete_file,                         \* not registered
    mcp_x,                               \* mcp_ name without a tool part
    ExposedName(memory, read_graph),     \* server not running
    ExposedName(filesystem, write_file)  \* server running
  }

\* API errors messages.create may raise (all anthropic.APIError)
ApiErrors == {"AuthenticationError", "RateLimitError", "APIConnectionError"}

\* histories a caller may pass: none, or one earlier exchange
Histories ==
  { <<>>,
    << TextMessage("user", <<"earlier question">>),
       TextMessage("assistant", <<"earlier answer">>) >> }

error_message ==
  << "I apologize, but I've reached the maximum number of tool use iterations. ",
     "Please try rephrasing your request or breaking it into smaller steps." >>

\* _clean_response_text, for texts without inner blank runs: text.strip()
RECURSIVE _clean_response_text(_)
_clean_response_text(x) ==
  IF x = <<>> THEN x
  ELSE IF Head(x) \in {" ", "\n"} THEN _clean_response_text(Tail(x))
  ELSE IF x[Len(x)] \in {" ", "\n"} THEN _clean_response_text(SubSeq(x, 1, Len(x) - 1))
  ELSE x

\* tool_uses = [block for block in response.content if block.type == "tool_use"]
IsToolUse(b) == b.type = "tool_use"
tool_uses == SelectSeq(response.content, IsToolUse)

\* final_text: the texts of the blocks that have one
RECURSIVE JoinText(_)
JoinText(blocks) ==
  IF blocks = <<>> THEN <<>>
  ELSE (IF Head(blocks).type = "text" THEN Head(blocks).content ELSE <<>>)
         \o JoinText(Tail(blocks))

\* the dict chat returns
ChatReturn(content, stop_reason, turns, input, output) ==
  [content |-> content, stop_reason |-> stop_reason, turns |-> turns,
   tokens_used |-> [input |-> input, output |-> output]]

\* ------------------------------------------------------------------------
\* Initial state: a ClaudeClient in agentic mode whose filesystem server
\* started and whose optional memory server did not; chat not yet called
\* ------------------------------------------------------------------------
NoLine == [id |-> 0]
NoCall == [tool_name |-> <<>>, peer |-> NoPeer, builtin_raises |-> FALSE,
           indexed |-> FALSE]
NoOutcome == [done |-> FALSE, r |-> Returns(ToolResult(<<>>, FALSE, PyNone, PyNone))]

ChatInit ==
  /\ pc = "idle"
  /\ conversation_history = <<>>
  /\ max_tool_turns = 0
  /\ messages = <<>>
  /\ turn_count = 0
  /\ total_input_tokens = 0
  /\ total_output_tokens = 0
  /\ response = NoResponse
  /\ tool_results = <<>>
  /\ exec_results = <<>>
  /\ ret = NoReturn
  /\ servers = {filesystem}
  /\ response_queues = <<>>
  /\ request_id = 0
  /\ uuids = 0
  /\ peer_in = {}
  /\ peer_out = <<>>
  /\ reader_pc = "read"
  /\ reader_response = NoLine
  /\ llm_calls = 0
  /\ llm_input = 0
  /\ llm_output = 0
  /\ llm_stops = <<>>
  /\ llm_error = ""
  /\ tool_uses_seen = 0
  /\ tool_execs = 0

NoArgs == [fn |-> "none"]
NotReturned == [done |-> FALSE]

Init ==
  /\ ChatInit
  /\ te_in = NoCall /\ te_out = NoOutcome
  /\ call = NoArgs /\ returned = NotReturned
  /\ ObjectsIdle

\* ------------------------------------------------------------------------
\* ClaudeClient.chat
\* ------------------------------------------------------------------------
\* faulty variant: chat's list is the caller's list object, extended in place
CallerListAliased(new_messages) == new_messages

\* the caller's list after chat's own list became new_messages: `+` built
\* chat's list as a new object, so appending to it leaves the caller's alone
CallerList(new_messages) == conversation_history

\* faulty variant: the new user message is put before the history
InitialMessagesPrepended(history, message) ==
  << TextMessage("user", message) >> \o history

\* messages = conversation_history + [{"role": "user", "content": message}]
InitialMessages(history, message) ==
  history \o << TextMessage("user", message) >>

\* entry: messages = conversation_history + [new user message], counters 0
Chat(history, n) ==
  /\ pc = "idle"
  /\ conversation_history' = history
  /\ max_tool_turns' = n
  /\ messages' = InitialMessages(history, <<"question">>)
  /\ turn_count' = 0
  /\ total_input_tokens' = 0
  /\ total_output_tokens' = 0
  /\ pc' = "loop"
  /\ UNCHANGED << response, tool_results, exec_results, ret >>
  /\ UNCHANGED << mcp_vars, peer_vars, reader_vars, history_vars, unit_vars >>

\* faulty variant: the loop condition is off by one
LoopEntersInclusive == turn_count <= max_tool_turns

\* while turn_count < max_tool_turns: turn_count += 1; messages.create(...)
LoopEnters == turn_count < max_tool_turns

LLMCall ==
  /\ pc = "loop"
  /\ LoopEnters
  /\ turn_count' = turn_count + 1
  /\ llm_calls' = llm_calls + 1
  /\ pc' = "llm"
  /\ UNCHANGED << conversation_history, max_tool_turns, messages,
                  total_input_tokens, total_output_tokens, response,
                  tool_results, exec_results, ret >>
  /\ UNCHANGED << llm_input, llm_output, llm_stops, llm_error, tool_uses_seen, tool_execs >>
  /\ UNCHANGED << mcp_vars, peer_vars, reader_vars, unit_vars >>

\* the loop condition fails: the max_turns result
MaxTurnsReached ==
  /\ pc = "loop"
  /\ ~LoopEnters
  /\ ret' = ChatReturn(error_message, "max_turns", turn_count,
                       total_input_tokens, total_output_tokens)
  /\ pc' = "done"
  /\ UNCHANGED << conversation_history, max_tool_turns, messages, turn_count,
                  total_input_tokens, total_output_tokens, response,
                  tool_results, exec_results >>
  /\ UNCHANGED << mcp_vars, peer_vars, reader_vars, history_vars, unit_vars >>

\* faulty variant: the total is overwritten by the last response's count
TokensReset(total, used) == used

\* the totals after a response with the given usage
TokensAfter(total, used) == total + used

\* the stop_reason chat reports when messages.create raised the API error e
ErrorStopReason(e) == "error"

\* faulty variant: an API error is retried instead of returned
LLMErrorRetried(e) ==
  /\ pc = "llm"
  /\ llm_error' = e
  /\ pc' = "loop"
  /\ UNCHANGED << conversation_history, max_tool_turns, messages, turn_count,
                  total_input_tokens, total_output_tokens, response,
                  tool_results, exec_results, ret >>
  /\ UNCHANGED << llm_calls, llm_input, llm_output, llm_stops, tool_uses_seen, tool_execs >>
  /\ UNCHANGED << mcp_vars, peer_vars, reader_vars, unit_vars >>

\* the call raises anthropic.APIError: the error result
LLMError(e) ==
  /\ pc = "llm"
  /\ llm_error' = e
  /\ ret' = ChatReturn(<<"API Error: ", e>>, ErrorStopReason(e), turn_count,
                       total_input_tokens, total_output_tokens)
  /\ pc' = "done"
  /\ UNCHANGED << conversation_history, max_tool_turns, messages, turn_count,
                  total_input_tokens, total_output_tokens, response,
                  tool_results, exec_results >>
  /\ UNCHANGED << llm_calls, llm_input, llm_output, llm_stops, tool_uses_seen, tool_execs >>
  /\ UNCHANGED << mcp_vars, peer_vars, reader_vars, unit_vars >>

\* the call returns with a stop_reason other than tool_use: the final result
LLMFinal(stop_reason, usage) ==
  /\ pc = "llm"
  /\ response' = [stop_reason |-> stop_reason,
                  content |-> << TextBlock(<<"Answer.", "\n">>) >>]
  /\ total_input_tokens' = TokensAfter(total_input_tokens, usage.input)
  /\ total_output_tokens' = TokensAfter(total_output_tokens, usage.output)
  /\ llm_input' = llm_input + usage.input
  /\ llm_output' = llm_output + usage.output
  /\ llm_stops' = Append(llm_stops, stop_reason)
  /\ ret' = ChatReturn(_clean_response_text(JoinText(response'.content)),
                       stop_reason, turn_count,
                       total_input_tokens', total_output_tokens')
  /\ pc' = "done"
  /\ UNCHANGED << conversation_history, max_tool_turns, messages, turn_count,
                  tool_results, exec_results >>
  /\ UNCHANGED << llm_calls, llm_error, tool_uses_seen, tool_execs >>
  /\ UNCHANGED << mcp_vars, peer_vars, reader_vars, unit_vars >>

\* the content of a tool_use response asking for the tools `names`
ToolUseContent(names) ==
  << TextBlock(<<"Let me check.">>) >>
    \o [j \in 1..Len(names) |-> ToolUseBlock(tool_uses_seen + j, names[j])]

\* the message that carries the assistant's tool-use response
AssistantMessage(content) == BlockMessage("assistant", content)

\* the call returns with stop_reason tool_use: the assistant message is
\* appended and the for loop over tool_uses starts
LLMToolUse(names, usage) ==
  /\ pc = "llm"
  /\ response' = [stop_reason |-> "tool_use", content |-> ToolUseContent(names)]
  /\ total_input_tokens' = TokensAfter(total_input_tokens, usage.input)
  /\ total_output_tokens' = TokensAfter(total_output_tokens, usage.output)
  /\ llm_input' = llm_input + usage.input
  /\ llm_output' = llm_output + usage.output
  /\ llm_stops' = Append(llm_stops, "tool_use")
  /\ tool_uses_seen' = tool_uses_seen + Len(names)
  /\ messages' = Append(messages, AssistantMessage(response'.content))
  /\ tool_results' = <<>>
  /\ exec_results' = <<>>
  /\ conversation_history' = CallerList(messages')
  /\ pc' = "tools"
  /\ UNCHANGED << max_tool_turns, turn_count, ret >>
  /\ UNCHANGED << llm_calls, llm_error, tool_execs >>
  /\ UNCHANGED << mcp_vars, peer_vars, reader_vars, unit_vars >>

\* ------------------------------------------------------------------------
\* The for loop over tool_uses: ClaudeClient.execute_tool, MCPClient.call_tool
\* ------------------------------------------------------------------------
\* the tool_use block the for loop is at
tool_use == tool_uses[Len(tool_results) + 1]

\* the result dict of the except clause of ClaudeClient.execute_tool
ExceptResult(msg) ==
  << Entry("success", PyBool(FALSE)), Entry("error", PyStr(msg)) >>

InvalidNameResult(tool_name) ==
  << Entry("success", PyBool(FALSE)),
     Entry("error", PyStr(<<"Invalid MCP tool name: ">> \o tool_name)) >>

ServerNotRunning(server_name) == <<"Server ">> \o server_name \o <<" not running">>

\* faulty variant: the split is not limited to two cuts
PartsUnlimited(tool_name) == split(tool_name, "_", -1)

\* parts = tool_name.split("_", 2): <<"mcp", server_name, actual_tool_name>>
parts(tool_name) == split(tool_name, "_", 2)

\* an mcp_ name reaches a peer when it has a server and a tool part and
\* call_tool finds the server running
Forwarded(tool_name) ==
  /\ startswith(tool_name, mcp_)
  /\ Len(parts(tool_name)) >= 3
  /\ parts(tool_name)[2] \in servers

\* the result of execute_tool for an mcp_ name that is not forwarded: the
\* invalid-name dict, or the except clause's dict for call_tool's RuntimeError
RejectedResult(tool_name) ==
  IF Len(parts(tool_name)) >= 3
    THEN ExceptResult(ServerNotRunning(parts(tool_name)[2]))
    ELSE InvalidNameResult(tool_name)

\* faulty variant: the newest result is put first
PrependResult(result) ==
  /\ tool_results' =
       << ToolResultBlock(tool_use.id, FormatResult(result)) >> \o tool_results
  /\ exec_results' = << result >> \o exec_results

\* rest of the loop body once execute_tool returned `result`: the block
\* appended to tool_results
AppendResult(result) ==
  /\ tool_results' =
       Append(tool_results, ToolResultBlock(tool_use.id, FormatResult(result)))
  /\ exec_results' = Append(exec_results, result)

\* ClaudeClient.execute_tool for a traditional tool: the ToolResult as a dict
\* (the traditional names the LLM asks for here read no single file)
TraditionalResult(tool_name, builtin_raises) ==
  to_dict(ToolExecutor_execute_tool(tool_name, NoPeer, builtin_raises, TRUE).val)

\* faulty variant: the turn counter also advances with each tool call
ExecTraditionalCounted(builtin_raises) ==
  /\ pc = "tools"
  /\ Len(tool_results) < Len(tool_uses)
  /\ \E tool_name \in {tool_use.name} :
       /\ ~startswith(tool_name, mcp_)
       /\ \E result \in {TraditionalResult(tool_name, builtin_raises)} :
            AppendResult(result)
  /\ tool_execs' = tool_execs + 1
  /\ turn_count' = turn_count + 1
  /\ UNCHANGED << pc, conversation_history, max_tool_turns, messages,
                  total_input_tokens, total_output_tokens, response, ret >>
  /\ UNCHANGED << llm_calls, llm_input, llm_output, llm_stops, llm_error,
                  tool_uses_seen >>
  /\ UNCHANGED << mcp_vars, peer_vars, reader_vars, unit_vars >>

\* one iteration for a traditional (non mcp_) tool name
ExecTraditional(builtin_raises) ==
  /\ pc = "tools"
  /\ Len(tool_results) < Len(tool_uses)
  /\ \E tool_name \in {tool_use.name} :
       /\ ~startswith(tool_name, mcp_)
       /\ \E result \in {TraditionalResult(tool_name, builtin_raises)} :
            AppendResult(result)
  /\ tool_execs' = tool_execs + 1
  /\ UNCHANGED << pc, conversation_history, max_tool_turns, messages, turn_count,
                  total_input_tokens, total_output_tokens, response, ret >>
  /\ UNCHANGED << llm_calls, llm_input, llm_output, llm_stops, llm_error,
                  tool_uses_seen >>
  /\ UNCHANGED << mcp_vars, peer_vars, reader_vars, unit_vars >>

\* one iteration for an mcp_ name that is not forwarded: the name has no
\* tool part, or call_tool raises because the server is not running
ExecMcpRejected ==
  /\ pc = "tools"
  /\ Len(tool_results) < Len(tool_uses)
  /\ \E tool_name \in {tool_use.name} :
       /\ startswith(tool_name, mcp_)
       /\ ~Forwarded(tool_name)
       /\ \E result \in {RejectedResult(tool_name)} : AppendResult(result)
  /\ tool_execs' = tool_execs + 1
  /\ UNCHANGED << pc, conversation_history, max_tool_turns, messages, turn_count,
                  total_input_tokens, total_output_tokens, response, ret >>
  /\ UNCHANGED << llm_calls, llm_input, llm_output, llm_stops, llm_error,
                  tool_uses_seen >>
  /\ UNCHANGED << mcp_vars, peer_vars, reader_vars, unit_vars >>

\* call_tool up to the wait: a fresh request id, its queue registered, the
\* request written to the server's stdin
CallToolSend ==
  /\ pc = "tools"
  /\ Len(tool_results) < Len(tool_uses)
  /\ \E tool_name \in {tool_use.name} : Forwarded(tool_name)
  /\ uuids' = uuids + 1
  /\ request_id' = uuids'
  /\ response_queues' = response_queues @@ (uuids' :> <<>>)
  /\ peer_in' = peer_in \cup {uuids'}
  /\ tool_execs' = tool_execs + 1
  /\ pc' = "mcp_wait"
  /\ UNCHANGED << chat_vars, servers, peer_out, reader_vars, unit_vars >>
  /\ UNCHANGED << llm_calls, llm_input, llm_output, llm_stops, llm_error,
                  tool_uses_seen >>

\* the finally clause: del self.response_queues[request_id]
QueuesWithout(id) ==
  [r \in DOMAIN response_queues \ {id} |-> response_queues[r]]

\* response_queue.get returns a response within the timeout; `body` is what
\* the peer put in it
CallToolGet(body) ==
  /\ pc = "mcp_wait"
  /\ response_queues[request_id] # <<>>
  /\ \E result \in {CallToolResponse(body)} : AppendResult(result)
  /\ response_queues' = QueuesWithout(request_id)
  /\ pc' = "tools"
  /\ UNCHANGED << conversation_history, max_tool_turns, messages, turn_count,
                  total_input_tokens, total_output_tokens, response, ret >>
  /\ UNCHANGED << servers, request_id, uuids >>
  /\ UNCHANGED << peer_vars, reader_vars, history_vars, unit_vars >>

\* response_queue.get raises queue.Empty after the timeout
CallToolTimeout ==
  /\ pc = "mcp_wait"
  /\ response_queues[request_id] = <<>>
  /\ AppendResult(TimeoutResult)
  /\ response_queues' = QueuesWithout(request_id)
  /\ pc' = "tools"
  /\ UNCHANGED << conversation_history, max_tool_turns, messages, turn_count,
                  total_input_tokens, total_output_tokens, response, ret >>
  /\ UNCHANGED << servers, request_id, uuids >>
  /\ UNCHANGED << peer_vars, reader_vars, history_vars, unit_vars >>

\* faulty variant: the tool results are sent in the assistant's role
ToolResultsAsAssistant(results) == BlockMessage("assistant", results)

\* the message that carries the tool results of a turn
ToolResultsMessage(results) == BlockMessage("user", results)

\* faulty variant: the for loop is left at the first failed tool call
ToolsDoneAtFailure ==
  /\ pc = "tools"
  /\ \/ Len(tool_results) = Len(tool_uses)
     \/ /\ exec_results # <<>>
        /\ Get(exec_results[Len(exec_results)], "success", PyNone) = PyBool(FALSE)
  /\ messages' = Append(messages, BlockMessage("user", tool_results))
  /\ pc' = "loop"
  /\ UNCHANGED << conversation_history, max_tool_turns, turn_count,
                  total_input_tokens, total_output_tokens, response,
                  tool_results, exec_results, ret >>
  /\ UNCHANGED << mcp_vars, peer_vars, reader_vars, history_vars, unit_vars >>

\* after the for loop: the user message with all tool results, then `continue`
ToolsDone ==
  /\ pc = "tools"
  /\ Len(tool_results) = Len(tool_uses)
  /\ messages' = Append(messages, ToolResultsMessage(tool_results))
  /\ conversation_history' = CallerList(messages')
  /\ pc' = "loop"
  /\ UNCHANGED << max_tool_turns, turn_count,
                  total_input_tokens, total_output_tokens, response,
                  tool_results, exec_results, ret >>
  /\ UNCHANGED << mcp_vars, peer_vars, reader_vars, history_vars, unit_vars >>

\* ------------------------------------------------------------------------
\* The peer server and MCPClient._read_server_output
\* ------------------------------------------------------------------------
\* the peer writes the response line to a request it received
PeerAnswer(id) ==
  /\ id \in peer_in
  /\ peer_in' = peer_in \ {id}
  /\ peer_out' = Append(peer_out, [id |-> id])
  /\ UNCHANGED << pc, chat_vars, mcp_vars, reader_vars, history_vars, unit_vars >>

\* faulty variant: the response goes to whichever call is pending
ResponseIdAnyPending(line) ==
  IF DOMAIN response_queues = {} THEN line.id
  ELSE CHOOSE r \in DOMAIN response_queues : TRUE

\* request_id = response.get("id")
ResponseId(line) == line.id

\* the reader takes a line and tests `request_id in self.response_queues`
ReaderRead ==
  /\ reader_pc = "read"
  /\ peer_out # <<>>
  /\ peer_out' = Tail(peer_out)
  /\ IF ResponseId(Head(peer_out)) \in DOMAIN response_queues
       THEN reader_pc' = "put" /\ reader_response' = Head(peer_out)
       ELSE UNCHANGED reader_vars
  /\ UNCHANGED << pc, chat_vars, mcp_vars, peer_in, history_vars, unit_vars >>

\* self.response_queues[request_id].put(response); a KeyError (the caller
\* deleted its queue meanwhile) ends the reader thread
ReaderPut ==
  /\ reader_pc = "put"
  /\ IF ResponseId(reader_response) \in DOMAIN response_queues
       THEN /\ response_queues' =
                 [response_queues EXCEPT ![ResponseId(reader_response)] =
                    Append(@, reader_response)]
            /\ reader_pc' = "read"
       ELSE /\ reader_pc' = "stopped"
            /\ UNCHANGED response_queues
  /\ reader_response' = NoLine
  /\ UNCHANGED << pc, chat_vars, servers, request_id, uuids, peer_vars,
                  history_vars, unit_vars >>

\* ------------------------------------------------------------------------
\* Specification of the chat path
\* ------------------------------------------------------------------------
\* sequences of 1..n tool names
NameSeqs(n) == UNION {[1..k -> ToolNames] : k \in 1..n}

ChatStep ==
  \/ \E h \in Histories, n \in 0..MaxTurns : Chat(h, n)
  \/ LLMCall
  \/ MaxTurnsReached
  \/ \E b \in BOOLEAN : ExecTraditional(b)
  \/ ExecMcpRejected
  \/ CallToolSend
  \/ \E body \in PeerBodies : CallToolGet(body)
  \/ CallToolTimeout
  \/ ToolsDone

\* what an LLM call may do, when the LLM asks for at most `budget` tools
\* over the invocation
LLMStep(budget) ==
  \/ \E e \in ApiErrors : LLMError(e)
  \/ \E sr \in {"end_turn", "max_tokens"}, u \in Usages : LLMFinal(sr, u)
  \/ \E names \in NameSeqs(budget - tool_uses_seen), u \in Usages :
       LLMToolUse(names, u)

PeerStep ==
  \/ \E id \in peer_in : PeerAnswer(id)
  \/ ReaderRead
  \/ ReaderPut

Next == ChatStep \/ LLMStep(MaxToolUses) \/ PeerStep

Spec == Init /\ [][Next]_vars

\* the same system, where the thread that runs chat keeps running (a
\* blocked response_queue.get is woken by a response or by its timeout)
LiveNext == ChatStep \/ LLMStep(MaxLiveToolUses) \/ PeerStep

LiveSpec == Init /\ [][LiveNext]_vars /\ WF_vars(ChatStep)

\* ------------------------------------------------------------------------
\* Specification of ToolExecutor.execute_tool used directly
\* ------------------------------------------------------------------------
TePeers ==
  {NoPeer}
    \cup { [attached |-> TRUE, list_raises |-> lr, tools |-> t, call_raises |-> cr] :
             lr \in BOOLEAN, cr \in BOOLEAN,
             t \in { {}, {delete_file},
                     {ExposedName(filesystem, write_file), write_file} } }

TeNames ==
  ToolNames \cup {search_documents, get_file_content, get_file_info, write_file}

TeInit ==
  /\ ChatInit
  /\ te_in \in [tool_name : TeNames, peer : TePeers, builtin_raises : BOOLEAN,
                indexed : BOOLEAN]
  /\ te_out = NoOutcome
  /\ call = NoArgs /\ returned = NotReturned
  /\ ObjectsIdle

TeExecute ==
  /\ ~te_out.done
  /\ te_out' = [done |-> TRUE,
                r |-> ToolExecutor_execute_tool(te_in.tool_name, te_in.peer,
                                                te_in.builtin_raises, te_in.indexed)]
  /\ UNCHANGED << client_vars, te_in, call_vars, object_vars >>

SpecTool == TeInit /\ [][TeExecute]_vars

\* ------------------------------------------------------------------------
\* Properties
\* ------------------------------------------------------------------------
\* the messages chat's loop appended: those after history + new user message
Appended == (Len(conversation_history) + 2)..Len(messages)

HasToolUse(m) == \E j \in 1..Len(m.blocks) : m.blocks[j].type = "tool_use"
ToolUsesOf(m) == SelectSeq(m.blocks, IsToolUse)

AllToolUse ==
  /\ llm_error = ""
  /\ \A i \in 1..Len(llm_stops) : llm_stops[i] = "tool_use"

\* C1: when every LLM response asks for tools, chat issues exactly
\* max_tool_turns LLM calls and returns stop_reason max_turns, turns =
\* max_tool_turns and the fixed apology; it never issues one call more, and
\* every pass of the loop uses up one of the max_tool_turns turns, so the
\* loop cannot go on forever.
C1_Bounded ==
  /\ pc # "idle" => llm_calls <= max_tool_turns
  /\ (pc = "done" /\ AllToolUse) =>
       /\ llm_calls = max_tool_turns
       /\ ret.stop_reason = "max_turns"
       /\ ret.turns = max_tool_turns
       /\ ret.content = error_message
C1_Progress ==
  (pc = "loop" /\ pc' # pc) =>
    \/ pc' = "llm" /\ turn_count < max_tool_turns /\ turn_count' = turn_count + 1
    \/ pc' = "done" /\ turn_count = max_tool_turns
C1_MaxTurns == []C1_Bounded /\ [][C1_Progress]_vars
C1_Witness ==
  pc = "done" /\ AllToolUse /\ max_tool_turns = MaxTurns /\ llm_calls = MaxTurns

\* C2: at every LLM call, each assistant message with tool_use blocks that
\* the loop appended is immediately followed by a user message of
\* tool_result blocks, and the last message is not such an assistant message.
C2_ToolUseFollowed ==
  pc = "llm" =>
    \A i \in Appended :
      (messages[i].role = "assistant" /\ HasToolUse(messages[i])) =>
        /\ i < Len(messages)
        /\ messages[i + 1].role = "user"
        /\ messages[i + 1].blocks # <<>>
        /\ \A j \in 1..Len(messages[i + 1].blocks) :
             messages[i + 1].blocks[j].type = "tool_result"
C2_Witness ==
  /\ pc = "llm"
  /\ \E i \in Appended : messages[i].role = "assistant" /\ HasToolUse(messages[i])

\* C3: the user message appended after a tool_use response with calls
\* c1..cn holds exactly n tool_result blocks, the i-th with the id of ci, and
\* it is in place before the next LLM call.
C3_ResultsMatch ==
  \A i \in Appended :
    (messages[i].role = "assistant" /\ HasToolUse(messages[i])) =>
      /\ pc \in {"llm", "loop", "done"} => i < Len(messages)
      /\ i < Len(messages) =>
           LET asked == ToolUsesOf(messages[i])
               given == messages[i + 1].blocks
           IN /\ Len(given) = Len(asked)
              /\ \A j \in 1..Len(given) :
                   given[j].type = "tool_result" /\ given[j].id = asked[j].id
C3_Witness ==
  /\ pc = "llm"
  /\ \E i \in Appended :
       /\ messages[i].role = "assistant"
       /\ Len(ToolUsesOf(messages[i])) >= 2
       /\ i < Len(messages)

\* C4: turn_count advances with the LLM calls only, and every result chat
\* returns reports turns = number of LLM calls issued (a raising call
\* included).
C4_Turns ==
  /\ pc # "idle" => turn_count = llm_calls
  /\ pc = "done" => ret.turns = llm_calls
C4_Witness ==
  pc = "done" /\ llm_error # "" /\ llm_calls = 2 /\ tool_execs = 2

\* C5: the running totals are the sums of the token counts of the responses
\* received so far, and every result chat returns reports these sums.
C5_Tokens ==
  /\ pc # "idle" =>
       total_input_tokens = llm_input /\ total_output_tokens = llm_output
  /\ pc = "done" =>
       ret.tokens_used = [input |-> llm_input, output |-> llm_output]
C5_Witness ==
  pc = "done" /\ Len(llm_stops) = 2 /\ llm_input = 5 /\ llm_output = 6

\* C6: a tool call that failed with reason r (success false) is reported to
\* the LLM as "Error: r".
C6_ErrorPrefix ==
  \A i \in 1..Len(tool_results) :
    Get(exec_results[i], "success", PyNone) = PyBool(FALSE) =>
      tool_results[i].content = ErrorPrefix \o str(Get(exec_results[i], "error", PyNone))

\* C7: once an LLM call raised an API error, chat has returned the error
\* result with the totals of the earlier calls, and no LLM call and no tool
\* execution follows.
C7_Terminal ==
  llm_error # "" =>
    /\ pc = "done"
    /\ ret.stop_reason = "error"
    /\ ret.turns = llm_calls
    /\ Len(llm_stops) = llm_calls - 1
    /\ ret.tokens_used = [input |-> llm_input, output |-> llm_output]
C7_NoRetry ==
  llm_error # "" => llm_calls' = llm_calls /\ tool_execs' = tool_execs /\ pc' = pc
C7_ApiError == []C7_Terminal /\ [][C7_NoRetry]_vars
C7_Witness ==
  llm_error # "" /\ llm_calls = 2 /\ llm_input = 3 /\ tool_execs >= 1

\* C8: the stop_reason returned for a failed LLM call is one that no other
\* kind of failure (authentication, rate limit, other) would have produced.
C8_Distinguished ==
  (pc = "done" /\ llm_error # "") =>
    \A e \in ApiErrors \ {llm_error} : ret.stop_reason # ErrorStopReason(e)

\* C9: execute_tool returns and never raises; for a name that is neither a
\* built-in nor reported by an attached peer it returns success = false and
\* the error "Unknown tool: <name>".
Reported(tool_name, peer) ==
  peer.attached /\ ~peer.list_raises /\ tool_name \in peer.tools
C9_Total ==
  te_out.done =>
    /\ ~te_out.r.exc
    /\ (te_in.tool_name \notin _builtin_tools
          /\ ~Reported(te_in.tool_name, te_in.peer)) =>
         /\ te_out.r.val.success = FALSE
         /\ te_out.r.val.error = PyStr(<<"Unknown tool: ">> \o te_in.tool_name)
C9_Witness ==
  /\ te_out.done
  /\ te_in.peer.attached
  /\ te_in.peer.list_raises
  /\ te_in.tool_name = ExposedName(filesystem, write_file)

\* C10: a call_tool whose peer never answers returns {success: false,
\* error: "Timeout"}; the turn's results are still appended and the chat goes
\* on to its next LLM call (or to max_turns), never to the error result.
Unanswered == pc = "mcp_wait" /\ request_id \in peer_in
IsTimeout(result) ==
  /\ Len(result) = 2
  /\ Get(result, "success", PyNone) = PyBool(FALSE)
  /\ Get(result, "error", PyNone) = PyStr(<<"Timeout">>)
C10_Returns ==
  (Unanswered /\ pc' # pc) =>
    /\ pc' = "tools"
    /\ Len(exec_results') = Len(exec_results) + 1
    /\ IsTimeout(exec_results'[Len(exec_results')])
    /\ Len(tool_results') = Len(tool_results) + 1
C10_NotFatal ==
  (pc = "done" /\ ret.stop_reason = "error") => llm_error # ""
C10_Timeout ==
  /\ [][C10_Returns]_vars
  /\ []C10_NotFatal
  /\ (Unanswered ~>
        \/ (pc = "llm" /\ messages[Len(messages)] = BlockMessage("user", tool_results))
        \/ (pc = "done" /\ ret.stop_reason = "max_turns"))
C10_Witness ==
  /\ pc = "llm"
  /\ \E i \in 1..Len(exec_results) : IsTimeout(exec_results[i])
  /\ request_id \in peer_in

\* C11: once the for loop of a turn is over, every tool call the LLM asked
\* for has been executed and has its result, whatever the earlier calls of
\* the turn returned; a failed tool call never ends the chat in the error
\* result.
Failed(result) == Get(result, "success", PyNone) = PyBool(FALSE)
C11_AllExecuted ==
  /\ pc \in {"loop", "llm", "done"} =>
       /\ tool_execs = tool_uses_seen
       /\ response.stop_reason = "tool_use" =>
            Len(exec_results) = Len(tool_uses)
  /\ (pc = "done" /\ llm_error = "") => ret.stop_reason # "error"
C11_Witness ==
  /\ pc = "loop"
  /\ Len(exec_results) = 2
  /\ Failed(exec_results[1])
  /\ tool_execs = 2

\* the tool_use responses received so far
ToolRounds == Len(SelectSeq(llm_stops, LAMBDA sr : sr = "tool_use"))

\* the list is the given history, the new user message, then one assistant
\* message and one user message per round-trip (the user message of the
\* round-trip in progress is still missing)
C22_Shape ==
  pc # "idle" =>
    /\ SubSeq(messages, 1, Len(conversation_history)) = conversation_history
    /\ messages[Len(conversation_history) + 1]
         = [role |-> "user", text |-> <<"question">>, blocks |-> <<>>]
    /\ Len(messages) = Len(conversation_history) + 1 + 2 * ToolRounds
                         - (IF pc \in {"tools", "mcp_wait"} THEN 1 ELSE 0)
    /\ \A i \in Appended :
         messages[i].role
           = (IF (i - Len(conversation_history)) % 2 = 0 THEN "assistant" ELSE "user")

\* earlier entries never change position or content
C22_Kept ==
  pc # "idle" =>
    /\ Len(messages') >= Len(messages)
    /\ SubSeq(messages', 1, Len(messages)) = messages

\* C22: throughout one chat invocation the message list is append-only: it
\* starts as the given history followed by the new user message, earlier
\* entries never change, and each completed tool round-trip appends exactly
\* two messages (assistant, then user), so after k round-trips its length
\* is len(history) + 1 + 2k whatever the number of tools per turn.
C22_AppendOnly == []C22_Shape /\ [][C22_Kept]_vars
C22_Witness ==
  /\ pc = "loop" /\ ToolRounds = 2 /\ Len(conversation_history) = 2
  /\ Len(messages) = 7

\* C27: when chat ends with stop_reason max_turns for N >= 1, the tool calls
\* of the N-th LLM response have all been executed and their results are the
\* last message of the list, which no LLM call receives: N rounds of tools
\* for N LLM calls.
C27_LastRoundRuns ==
  (pc = "done" /\ ret.stop_reason = "max_turns" /\ max_tool_turns >= 1) =>
    /\ llm_calls = max_tool_turns
    /\ ToolRounds = max_tool_turns
    /\ tool_execs = tool_uses_seen
    /\ response.stop_reason = "tool_use"
    /\ messages[Len(messages) - 1] = [role |-> "assistant", text |-> <<>>,
                                      blocks |-> response.content]
    /\ messages[Len(messages)].role = "user"
    /\ LET asked == SelectSeq(response.content, LAMBDA b : b.type = "tool_use")
           given == messages[Len(messages)].blocks
       IN /\ asked # <<>>
          /\ Len(given) = Len(asked)
          /\ \A j \in 1..Len(given) :
               given[j].type = "tool_result" /\ given[j].id = asked[j].id
C27_Witness ==
  /\ pc = "done" /\ ret.stop_reason = "max_turns"
  /\ max_tool_turns = 2 /\ tool_execs = 2

\* the caller's list is not touched while chat runs
C28_Untouched == pc # "idle" => conversation_history' = conversation_history

\* the appended messages are in chat's own list only
C28_Internal ==
  pc # "idle" =>
    /\ conversation_history \in Histories
    /\ Len(messages) > Len(conversation_history)

C23_Keyed ==
  \A r \in DOMAIN response_queues :
    \A i \in 1..Len(response_queues[r]) : response_queues[r][i].id = r

\* a line the reader takes while no pending call has its id is dropped:
\* no queue changes and no call gets a result from it
C23_Discard ==
  (/\ reader_pc = "read" /\ peer_out # <<>> /\ peer_out' = Tail(peer_out)
   /\ Head(peer_out).id \notin DOMAIN response_queues)
    => /\ response_queues' = response_queues
       /\ reader_pc' = "read"
       /\ exec_results' = exec_results

\* C23: a response read from a peer is delivered only to the pending call
\* whose request id equals the response's id; a response whose id matches no
\* pending call (one arriving after its call timed out) is discarded and is
\* never the result of a different call.
C23_Delivery == []C23_Keyed /\ [][C23_Discard]_vars
C23_Witness ==
  /\ pc = "mcp_wait" /\ request_id = 2
  /\ Len(exec_results) = 1
  /\ Get(exec_results[1], "error", PyNone) = PyStr(<<"Timeout">>)
  /\ peer_in = {} /\ peer_out = <<>> /\ reader_pc = "read"
  /\ response_queues[2] = << [id |-> 2] >>

\* C24: the reader thread of a peer keeps running under every interleaving
\* of its check-then-put on response_queues with a caller's timeout cleanup:
\* a response that races with its own call's timeout never stops the
\* delivery of responses to later calls.
C24_ReaderRuns == reader_pc # "stopped"

\* C12: get_file_content or get_file_info, executed through execute_tool for
\* a file that is not in the index, gives a ToolResult with success false
\* whose error names the file.
C12_NotIndexed ==
  (/\ te_out.done
   /\ te_in.tool_name \in {get_file_content, get_file_info}
   /\ ~te_in.builtin_raises
   /\ ~te_in.indexed) =>
    /\ te_out.r.val.success = FALSE
    /\ te_out.r.val.error \in
         { PyStr(<<"File not indexed: ">> \o filepath),
           PyStr(<<"File not found in index: ">> \o filepath) }

\* ------------------------------------------------------------------------
\* Specification of ClaudeClient.execute_tool used on one name
\* ------------------------------------------------------------------------
\* longest tool name drawn letter by letter
MaxNameLen == 3

\* the strings over the alphabet A of length 0..n
Words(A, n) == UNION {[1..k -> A] : k \in 0..n}

\* where ClaudeClient.execute_tool takes a name: to ToolExecutor, to
\* MCPClient.call_tool with (server, tool), or to a result dict of its own
ClaudeClient_execute_tool(tool_name) ==
  IF ~startswith(tool_name, mcp_) THEN
    [kind |-> "traditional", server |-> <<>>, tool |-> <<>>,
     result |-> TraditionalResult(tool_name, FALSE)]
  ELSE IF Forwarded(tool_name) THEN
    [kind |-> "call_tool", server |-> parts(tool_name)[2],
     tool |-> parts(tool_name)[3], result |-> <<>>]
  ELSE
    [kind |-> "result", server |-> <<>>, tool |-> <<>>,
     result |-> RejectedResult(tool_name)]

\* server names without an underscore: running, not running, empty
NameServers == {filesystem, memory, <<>>}
\* tool names, underscores allowed
NameTools == Words({"w", "_"}, MaxNameLen) \cup {write_file}
\* mcp_ names that get_tools does not build
OtherNames == {mcp_, mcp_x, mcp_ \o filesystem, list_indexed_files}

NameCalls ==
  { [fn |-> "execute_tool", exposed |-> TRUE, s |-> s, t |-> t,
     tool_name |-> ExposedName(s, t)] : s \in NameServers, t \in NameTools }
    \cup { [fn |-> "execute_tool", exposed |-> FALSE, s |-> <<>>, t |-> <<>>,
            tool_name |-> n] : n \in OtherNames }

NameInit ==
  /\ ChatInit
  /\ te_in = NoCall /\ te_out = NoOutcome
  /\ call \in NameCalls /\ returned = NotReturned
  /\ ObjectsIdle

NameExecute ==
  /\ call.fn = "execute_tool"
  /\ ~returned.done
  /\ returned' = [done |-> TRUE, out |-> ClaudeClient_execute_tool(call.tool_name)]
  /\ UNCHANGED << client_vars, te_vars, call, object_vars >>

SpecName == NameInit /\ [][NameExecute]_vars

\* C13 (as stated): a name built by get_tools from (s, t), s without an
\* underscore, is taken apart into exactly (s, t); an mcp_ name without a
\* server part or without a tool part gives a failure dict and no call
\* reaches a peer.
C13_NoPartNoPeer ==
  returned.done =>
    /\ (call.exposed /\ call.s \in servers /\ call.t # <<>>) =>
         /\ returned.out.kind = "call_tool"
         /\ returned.out.server = call.s /\ returned.out.tool = call.t
    /\ (startswith(call.tool_name, mcp_)
          /\ (~call.exposed \/ call.s = <<>> \/ call.t = <<>>)) =>
         returned.out.kind = "result" /\ Failed(returned.out.result)

\* C13 (amended): a name built by get_tools from (s, t), s without an
\* underscore, is taken apart into exactly (s, t), t empty included: it is
\* forwarded as (s, t) when s is running and fails with "Server s not
\* running" otherwise; an mcp_ name with fewer than three parts fails with
\* "Invalid MCP tool name"; neither raises nor reaches a peer.
C13_RoundTrip ==
  returned.done =>
    /\ (call.exposed /\ call.s \in servers) =>
         /\ returned.out.kind = "call_tool"
         /\ returned.out.server = call.s /\ returned.out.tool = call.t
    /\ (call.exposed /\ call.s \notin servers) =>
         /\ returned.out.kind = "result"
         /\ Failed(returned.out.result)
         /\ Get(returned.out.result, "error", PyNone)
              = PyStr(<<"Server ">> \o call.s \o <<" not running">>)
    /\ (~call.exposed /\ startswith(call.tool_name, mcp_)) =>
         /\ returned.out.kind = "result"
         /\ Failed(returned.out.result)
         /\ Get(returned.out.result, "error", PyNone)
              = PyStr(<<"Invalid MCP tool name: ">> \o call.tool_name)
C13_Witness ==
  /\ returned.done
  /\ call.exposed /\ call.s = filesystem /\ call.t = write_file
  /\ returned.out.kind = "call_tool"

\* ------------------------------------------------------------------------
\* core/rag_retriever.py and indexing/chromadb_client.py: retrieve
\* ------------------------------------------------------------------------
\* most entries the collection returns for one query
MaxResults == 2

\* the whitespace str.strip() removes
Whitespace == {" ", "\n", "\r", "\t"}

\* str.strip()
RECURSIVE strip(_)
strip(x) ==
  IF x = <<>> THEN x
  ELSE IF Head(x) \in Whitespace THEN strip(Tail(x))
  ELSE IF x[Len(x)] \in Whitespace THEN strip(SubSeq(x, 1, Len(x) - 1))
  ELSE x

\* Distances are held in tenths and scores in twentieths, so that
\* 1.0 - distance / 2.0 is the integer 20 - d.
Num(d) == [k |-> "num", d |-> d]
Null == [k |-> "null", d |-> 0]
Missing == [k |-> "missing", d |-> 0]

\* ChromaDBClient.query: the formatted entries, [] when anything raises
\*   coll.raises     collection.query raises
\*   coll.n          number of ids returned
\*   coll.distances  "absent" (no such key), "none" (the key holds None) or
\*                   "list", with coll.rows the distances
ChromaDBClient_query(coll) ==
  IF coll.raises THEN <<>>
  ELSE IF coll.n = 0 THEN <<>>
  ELSE IF coll.distances = "none" THEN <<>>
  ELSE [i \in 1..coll.n |->
          [document |-> i,
           distance |-> IF coll.distances = "absent" THEN Null ELSE coll.rows[i]]]

\* relevance_score = max(0.0, 1.0 - (distance / 2.0)), in twentieths
relevance_score(d) == IF 20 - d > 0 THEN 20 - d ELSE 0

\* faulty variant: a result on the threshold is dropped
AboveThreshold(score, similarity_threshold) == score > similarity_threshold

\* if relevance_score >= self.similarity_threshold
MeetsThreshold(score, similarity_threshold) == score >= similarity_threshold

\* distance = result.get('distance', 1.0)
DistanceOf(result) ==
  IF result.distance.k = "missing" THEN Num(10) ELSE result.distance

RetrievalResult(result) ==
  [text |-> result.document, distance |-> DistanceOf(result).d,
   relevance_score |-> relevance_score(DistanceOf(result).d)]

Kept(r, similarity_threshold) ==
  MeetsThreshold(r.relevance_score, similarity_threshold)

RECURSIVE Filter(_, _)
Filter(rs, similarity_threshold) ==
  IF rs = <<>> THEN <<>>
  ELSE (IF Kept(Head(rs), similarity_threshold) THEN <<Head(rs)>> ELSE <<>>)
         \o Filter(Tail(rs), similarity_threshold)

\* the try block of retrieve: the list it returns or the exception that
\* leaves it (None / 2.0 raises TypeError)
retrieve_try(raw_results, similarity_threshold) ==
  IF raw_results = <<>> THEN Returns(<<>>)
  ELSE IF \E i \in 1..Len(raw_results) : DistanceOf(raw_results[i]).k = "null"
    THEN Raises(<<"unsupported operand type(s) for /: 'NoneType' and 'float'">>)
  ELSE Returns(Filter([i \in 1..Len(raw_results) |-> RetrievalResult(raw_results[i])],
                      similarity_threshold))

\* faulty variant: the except clause lets the exception out
retrieve_reraise(e) == e

\* the except clause of retrieve
retrieve_except(e) == Returns(<<>>)

\* RAGRetriever.retrieve
retrieve(query, coll, similarity_threshold) ==
  IF query = <<>> \/ strip(query) = <<>> THEN Returns(<<>>)
  ELSE LET r == retrieve_try(ChromaDBClient_query(coll), similarity_threshold) IN
       IF r.exc THEN retrieve_except(r) ELSE r

Distances == {Num(0), Num(6), Num(12), Num(25), Null}
Thresholds == {0, 14, 20}
Queries == {<<>>, <<" ", " ">>, <<"q", " ">>}

Collections ==
  { [raises |-> TRUE, n |-> 0, distances |-> "absent", rows |-> <<>>] }
    \cup { [raises |-> FALSE, n |-> n, distances |-> d, rows |-> <<>>] :
             n \in 0..MaxResults, d \in {"absent", "none"} }
    \cup { [raises |-> FALSE, n |-> Len(rows), distances |-> "list", rows |-> rows] :
             rows \in UNION {[1..n -> Distances] : n \in 0..MaxResults} }

RetrieveInit ==
  /\ ChatInit
  /\ te_in = NoCall /\ te_out = NoOutcome
  /\ call \in [fn : {"retrieve"}, query : Queries, coll : Collections,
                similarity_threshold : Thresholds]
  /\ returned = NotReturned
  /\ ObjectsIdle

RetrieveExecute ==
  /\ call.fn = "retrieve"
  /\ ~returned.done
  /\ returned' = [done |-> TRUE,
                  out |-> retrieve(call.query, call.coll, call.similarity_threshold)]
  /\ UNCHANGED << client_vars, te_vars, call, object_vars >>

SpecRetrieve == RetrieveInit /\ [][RetrieveExecute]_vars

\* the store answered a non-blank query with entries that all have a distance
Scored ==
  /\ strip(call.query) # <<>>
  /\ ~call.coll.raises
  /\ call.coll.distances = "list"
  /\ \A i \in 1..call.coll.n : call.coll.rows[i].k = "num"
\* the entries of the store whose score reaches the threshold
Passing ==
  { i \in 1..call.coll.n :
      call.coll.rows[i].d <= 20 /\ 20 - call.coll.rows[i].d >= call.similarity_threshold }
    \cup { i \in 1..call.coll.n :
             call.coll.rows[i].d > 20 /\ 0 >= call.similarity_threshold }
\* the j-th smallest element of the set S of numbers
Kth(S, j) == CHOOSE i \in S : Cardinality({x \in S : x < i}) = j - 1

Unscorable ==
  \/ call.coll.raises
  \/ call.coll.n > 0 /\ call.coll.distances # "list"
  \/ call.coll.distances = "list"
       /\ \E i \in 1..call.coll.n : call.coll.rows[i].k = "null"
C15_EmptyOnError ==
  returned.done =>
    /\ ~returned.out.exc
    /\ Unscorable => returned.out.val = <<>>
C15_Witness ==
  /\ returned.done
  /\ strip(call.query) # <<>>
  /\ call.coll.n = 2 /\ call.coll.distances = "list"
  /\ call.coll.rows[1] = Num(0) /\ call.coll.rows[2] = Null
  /\ call.similarity_threshold = 0

\* ------------------------------------------------------------------------
\* indexing/chunker.py
\* ------------------------------------------------------------------------
\* most sentences in a text
MaxSentences == 2

DEFAULT_CHUNK_SIZE == 300

TextChunk(text, chunk_index, start_pos, end_pos) ==
  [text |-> text, chunk_index |-> chunk_index, start_pos |-> start_pos,
   end_pos |-> end_pos]

\* chunk_size after validation
ChunkSizeUsed(chunk_size) ==
  IF chunk_size <= 0 THEN DEFAULT_CHUNK_SIZE ELSE chunk_size

\* faulty variant: a negative overlap is not raised to 0
ChunkOverlapUnclamped(chunk_size, chunk_overlap) ==
  IF chunk_overlap >= ChunkSizeUsed(chunk_size)
    THEN ChunkSizeUsed(chunk_size) \div 2
    ELSE chunk_overlap

\* chunk_overlap after validation
ChunkOverlapUsed(chunk_size, chunk_overlap) ==
  LET nonneg == IF chunk_overlap < 0 THEN 0 ELSE chunk_overlap IN
  IF nonneg >= ChunkSizeUsed(chunk_size)
    THEN ChunkSizeUsed(chunk_size) \div 2
    ELSE nonneg

\* text[start:end]
Slice(text, start, end) ==
  SubSeq(text, start + 1, IF end < Len(text) THEN end ELSE Len(text))

\* _chunk_by_characters: the while loop from `start` on
RECURSIVE CharLoop(_, _, _, _, _)
CharLoop(text, chunk_size, chunk_overlap, start, chunk_index) ==
  IF ~(start < Len(text)) THEN <<>>
  ELSE LET end == start + chunk_size IN
       << TextChunk(Slice(text, start, end), chunk_index, start, end) >>
         \o (IF end - chunk_overlap >= Len(text) THEN <<>>
             ELSE CharLoop(text, chunk_size, chunk_overlap,
                           end - chunk_overlap, chunk_index + 1))

_chunk_by_characters(text, chunk_size, chunk_overlap) ==
  CharLoop(text, chunk_size, chunk_overlap, 0, 0)

Enders == {".", "!", "?"}
Capitals ==
  {"A", "B", "C", "D", "E", "F", "G", "H", "I", "J", "K", "L", "M", "N", "O",
   "P", "Q", "R", "S", "T", "U", "V", "W", "X", "Y", "Z"}

\* index of the first non-blank character of text after position i, or
\* Len(text) + 1
NextNonBlank(text, i) ==
  IF \E j \in (i + 1)..Len(text) : text[j] # " "
    THEN CHOOSE j \in (i + 1)..Len(text) :
           text[j] # " " /\ \A k \in (i + 1)..(j - 1) : text[k] = " "
    ELSE Len(text) + 1

\* (?<=[.!?])\s+(?=[A-Z]): the text is cut after position i
CutAt(text, i) ==
  /\ text[i] \in Enders
  /\ NextNonBlank(text, i) > i + 1
  /\ NextNonBlank(text, i) <= Len(text)
  /\ text[NextNonBlank(text, i)] \in Capitals

\* re.split(sentence_pattern, text), then strip and drop the empty pieces
RECURSIVE SplitSentences(_)
SplitSentences(text) ==
  IF \E i \in 1..Len(text) : CutAt(text, i) THEN
    LET i == CHOOSE i \in 1..Len(text) :
               CutAt(text, i) /\ \A j \in 1..(i - 1) : ~CutAt(text, j)
        piece == strip(SubSeq(text, 1, i))
    IN (IF piece = <<>> THEN <<>> ELSE <<piece>>)
         \o SplitSentences(SubSeq(text, NextNonBlank(text, i), Len(text)))
  ELSE IF strip(text) = <<>> THEN <<>> ELSE <<strip(text)>>

\* str.replace(old, new)
RECURSIVE replace(_, _, _)
replace(text, old, new) ==
  IF Len(text) < Len(old) THEN text
  ELSE IF SubSeq(text, 1, Len(old)) = old
    THEN new \o replace(SubSeq(text, Len(old) + 1, Len(text)), old, new)
  ELSE <<Head(text)>> \o replace(Tail(text), old, new)

\* the abbreviations and what replaces them, in the order of the code
Abbreviations ==
  << << <<"D", "r", ".">>, <<"D", "r">> >>,
     << <<"M", "r", ".">>, <<"M", "r">> >>,
     << <<"M", "r", "s", ".">>, <<"M", "r", "s">> >>,
     << <<"M", "s", ".">>, <<"M", "s">> >>,
     << <<"P", "r", "o", "f", ".">>, <<"P", "r", "o", "f">> >>,
     << <<"S", "r", ".">>, <<"S", "r">> >>,
     << <<"J", "r", ".">>, <<"J", "r">> >>,
     << <<"e", "t", "c", ".">>, <<"e", "t", "c">> >>,
     << <<"e", ".", "g", ".">>, <<"e", "g">> >>,
     << <<"i", ".", "e", ".">>, <<"i", "e">> >>,
     << <<"v", "s", ".">>, <<"v", "s">> >> >>

\* the first n replacements applied to text
RECURSIVE ReplaceAbbreviations(_, _)
ReplaceAbbreviations(text, n) ==
  IF n = 0 THEN text
  ELSE replace(ReplaceAbbreviations(text, n - 1),
               Abbreviations[n][1], Abbreviations[n][2])

_split_into_sentences(text) ==
  SplitSentences(ReplaceAbbreviations(text, Len(Abbreviations)))

\* " ".join(sentences)
RECURSIVE Join(_)
Join(sentences) ==
  IF sentences = <<>> THEN <<>>
  ELSE IF Len(sentences) = 1 THEN sentences[1]
  ELSE sentences[1] \o <<" ">> \o Join(Tail(sentences))

\* sum(len(s) for s in sentences)
RECURSIVE SumLen(_)
SumLen(sentences) ==
  IF sentences = <<>> THEN 0 ELSE Len(Head(sentences)) + SumLen(Tail(sentences))

\* the loop over reversed(current_chunk) that picks the overlap sentences
RECURSIVE OverlapLoop(_, _, _, _)
OverlapLoop(current_chunk, overlap_sentences, overlap_length, chunk_overlap) ==
  IF current_chunk = <<>>
    THEN [sentences |-> overlap_sentences, length |-> overlap_length]
  ELSE LET sent == current_chunk[Len(current_chunk)] IN
       IF overlap_length + Len(sent) <= chunk_overlap
         THEN OverlapLoop(SubSeq(current_chunk, 1, Len(current_chunk) - 1),
                          <<sent>> \o overlap_sentences,
                          overlap_length + Len(sent) + 1, chunk_overlap)
         ELSE [sentences |-> overlap_sentences, length |-> overlap_length]

\* the chunk made of current_chunk, appended to chunks
Saved(st) ==
  Append(st.chunks,
         TextChunk(Join(st.current_chunk), st.chunk_index, st.start_pos,
                   st.start_pos + Len(Join(st.current_chunk))))

\* the body of `for sentence in sentences`, on the loop's variables st
SentenceStep(st, sentence, chunk_size, chunk_overlap) ==
  IF Len(sentence) > chunk_size THEN
    LET saved ==
          IF st.current_chunk # <<>>
            THEN [chunks |-> Saved(st), current_chunk |-> <<>>,
                  current_length |-> 0, chunk_index |-> st.chunk_index + 1,
                  start_pos |-> st.start_pos + Len(Join(st.current_chunk))
                                  - chunk_overlap]
            ELSE st
        long_chunks == _chunk_by_characters(sentence, chunk_size, chunk_overlap)
        adjusted ==
          [i \in 1..Len(long_chunks) |->
             TextChunk(long_chunks[i].text, saved.chunk_index + i - 1,
                       saved.start_pos + long_chunks[i].start_pos,
                       saved.start_pos + long_chunks[i].end_pos)]
        chunks == saved.chunks \o adjusted
    IN [chunks |-> chunks, current_chunk |-> saved.current_chunk,
        current_length |-> saved.current_length,
        chunk_index |-> saved.chunk_index + Len(long_chunks),
        start_pos |-> chunks[Len(chunks)].end_pos - chunk_overlap]
  ELSE
    LET over == OverlapLoop(st.current_chunk, <<>>, 0, chunk_overlap)
        next ==
          IF st.current_length + Len(sentence) > chunk_size /\ st.current_chunk # <<>>
            THEN [chunks |-> Saved(st), current_chunk |-> over.sentences,
                  current_length |-> SumLen(over.sentences) + Len(over.sentences) - 1,
                  chunk_index |-> st.chunk_index + 1,
                  start_pos |-> st.start_pos + Len(Join(st.current_chunk))
                                  - over.length]
            ELSE st
    IN [next EXCEPT !.current_chunk = Append(@, sentence),
                    !.current_length = @ + Len(sentence) + 1]

RECURSIVE SentenceLoop(_, _, _, _)
SentenceLoop(st, sentences, chunk_size, chunk_overlap) ==
  IF sentences = <<>> THEN st
  ELSE SentenceLoop(SentenceStep(st, Head(sentences), chunk_size, chunk_overlap),
                    Tail(sentences), chunk_size, chunk_overlap)

_chunk_by_sentences(text, chunk_size, chunk_overlap) ==
  LET sentences == _split_into_sentences(text) IN
  IF sentences = <<>> THEN _chunk_by_characters(text, chunk_size, chunk_overlap)
  ELSE LET st == SentenceLoop([chunks |-> <<>>, current_chunk |-> <<>>,
                               current_length |-> 0, chunk_index |-> 0,
                               start_pos |-> 0],
                              sentences, chunk_size, chunk_overlap)
       IN IF st.current_chunk # <<>> THEN Saved(st) ELSE st.chunks

chunk_text(text, chunk_size, chunk_overlap, preserve_sentences) ==
  IF text = <<>> \/ strip(text) = <<>> THEN <<>>
  ELSE IF Len(text) <= ChunkSizeUsed(chunk_size)
    THEN << TextChunk(text, 0, 0, Len(text)) >>
  ELSE IF preserve_sentences
    THEN _chunk_by_sentences(text, ChunkSizeUsed(chunk_size),
                             ChunkOverlapUsed(chunk_size, chunk_overlap))
  ELSE _chunk_by_characters(text, ChunkSizeUsed(chunk_size),
                            ChunkOverlapUsed(chunk_size, chunk_overlap))

\* a sentence of n >= 2 characters: a capital, letters, a full stop
Sentence(n) == <<"A">> \o [i \in 1..(n - 2) |-> "a"] \o <<".">>
SentenceLengths == {2, 3, 6}
Texts ==
  { Join([i \in 1..Len(ns) |-> Sentence(ns[i])]) :
      ns \in UNION {[1..k -> SentenceLengths] : k \in 1..MaxSentences} }
    \cup { <<>>, <<" ", " ">>, <<"a", "b", "c", "d", "e", "f", "g">>,
           <<"D", "r", ".", " ", "A", ".">>,
           <<"A", " ", "e", ".", "g", ".", " ", "a", ".", " ", "B", ".">> }
ChunkSizes == {-1, 0, 1, 2, 4, 5}
ChunkOverlaps == {-1, 0, 2, 4, 5, 400}

ChunkInit ==
  /\ ChatInit
  /\ te_in = NoCall /\ te_out = NoOutcome
  /\ call \in [fn : {"chunk_text"}, text : Texts, chunk_size : ChunkSizes,
                chunk_overlap : ChunkOverlaps, preserve_sentences : BOOLEAN]
  /\ returned = NotReturned
  /\ ObjectsIdle

ChunkExecute ==
  /\ call.fn = "chunk_text"
  /\ ~returned.done
  /\ returned' =
       [done |-> TRUE,
        used |-> [chunk_size |-> ChunkSizeUsed(call.chunk_size),
                  chunk_overlap |-> ChunkOverlapUsed(call.chunk_size, call.chunk_overlap)],
        chunks |-> chunk_text(call.text, call.chunk_size, call.chunk_overlap,
                              call.preserve_sentences)]
  /\ UNCHANGED << client_vars, te_vars, call, object_vars >>

SpecChunk == ChunkInit /\ [][ChunkExecute]_vars

\* C16: in sentence mode every chunk is at most chunk_size long, unless it
\* is one single sentence that is itself longer than chunk_size.
C16_ChunkSize ==
  (returned.done /\ call.preserve_sentences) =>
    \A i \in 1..Len(returned.chunks) :
      Len(returned.chunks[i].text) > returned.used.chunk_size =>
        \E j \in 1..Len(_split_into_sentences(call.text)) :
          returned.chunks[i].text = _split_into_sentences(call.text)[j]

\* s occurs in t as a run of consecutive characters
IsSubstring(s, t) ==
  \E i \in 0..(Len(t) - Len(s)) : SubSeq(t, i + 1, i + Len(s)) = s

\* C30: sentence-mode chunking preserves the content: the periods removed
\* from guarded abbreviations are present again in the output, so the text
\* of every chunk (sentences that follow one another in the input, one
\* blank apart) is a substring of the input text.
C30_ContentKept ==
  (returned.done /\ call.preserve_sentences) =>
    \A i \in 1..Len(returned.chunks) :
      IsSubstring(returned.chunks[i].text, call.text)

\* C18: whatever integers are passed, the values used satisfy
\* 0 <= overlap < chunk_size; in character mode each window starts after
\* the one before it and inside the text, so there are at most len(text)
\* windows.
C18_Progress ==
  returned.done =>
    /\ 0 <= returned.used.chunk_overlap
    /\ returned.used.chunk_overlap < returned.used.chunk_size
    /\ ~call.preserve_sentences =>
         /\ Len(returned.chunks) <= Len(call.text)
         /\ \A i \in 1..Len(returned.chunks) :
              /\ returned.chunks[i].start_pos < Len(call.text)
              /\ i > 1 => returned.chunks[i].start_pos
                            > returned.chunks[i - 1].start_pos
C18_Witness ==
  /\ returned.done
  /\ ~call.preserve_sentences
  /\ call.chunk_size = 2 /\ call.chunk_overlap = 5
  /\ returned.used.chunk_overlap = 1
  /\ Len(returned.chunks) >= 3

\* ------------------------------------------------------------------------
\* indexing/normalizer.py
\* ------------------------------------------------------------------------
\* longest text drawn character by character
MaxTextLen == 6

\* Characters outside ASCII are written by their code point.
\* unicodedata.normalize('NFC', text): e + combining acute becomes e-acute
RECURSIVE _normalize_unicode(_)
_normalize_unicode(text) ==
  IF text = <<>> THEN <<>>
  ELSE IF Len(text) >= 2 /\ text[1] = "e" /\ text[2] = "U+0301"
    THEN <<"U+00E9">> \o _normalize_unicode(SubSeq(text, 3, Len(text)))
  ELSE <<Head(text)>> \o _normalize_unicode(Tail(text))

\* characters of a Unicode category C*, other than newline, tab, return
ControlChars == {"U+0007", "U+200B"}
IsKept(c) == c \notin ControlChars
_remove_control_chars(text) == SelectSeq(text, IsKept)

\* re.sub applied to single characters: those of `from` become `to`
MapChars(text, from, to) ==
  [i \in 1..Len(text) |-> IF text[i] \in from THEN to ELSE text[i]]

_normalize_quotes(text) ==
  MapChars(MapChars(text, {"\"", "U+00AB", "U+00BB", "U+201E"}, "\""),
           {"'", "U+201A", "U+201B"}, "'")

_normalize_dashes(text) == MapChars(text, {"U+2014", "U+2013", "U+2010"}, "-")

Digits == {"0", "1", "2", "3", "4", "5", "6", "7", "8", "9"}

\* re.sub(r'(\d)<sep>(\d{3})', r'\1\2', text): matches are found left to
\* right and do not overlap
RECURSIVE DropSeparator(_, _)
DropSeparator(text, sep) ==
  IF text = <<>> THEN <<>>
  ELSE IF /\ Len(text) >= 5
          /\ text[1] \in Digits /\ text[2] = sep
          /\ text[3] \in Digits /\ text[4] \in Digits /\ text[5] \in Digits
    THEN <<text[1], text[3], text[4], text[5]>>
           \o DropSeparator(SubSeq(text, 6, Len(text)), sep)
  ELSE <<Head(text)>> \o DropSeparator(Tail(text), sep)

_normalize_numbers(text) == DropSeparator(DropSeparator(text, ","), ".")

\* number of leading characters of text equal to c
RECURSIVE RunLength(_, _)
RunLength(text, c) ==
  IF text = <<>> \/ Head(text) # c THEN 0 ELSE 1 + RunLength(Tail(text), c)

\* re.sub(r'c{n,}', to, text): every run of at least n characters c becomes `to`
RECURSIVE CollapseRuns(_, _, _, _)
CollapseRuns(text, c, n, to) ==
  IF text = <<>> THEN <<>>
  ELSE IF RunLength(text, c) >= n
    THEN to \o CollapseRuns(SubSeq(text, RunLength(text, c) + 1, Len(text)), c, n, to)
  ELSE <<Head(text)>> \o CollapseRuns(Tail(text), c, n, to)

\* text.replace('\r\n', '\n')
RECURSIVE ReplaceCrLf(_)
ReplaceCrLf(text) ==
  IF text = <<>> THEN <<>>
  ELSE IF Len(text) >= 2 /\ text[1] = "\r" /\ text[2] = "\n"
    THEN <<"\n">> \o ReplaceCrLf(SubSeq(text, 3, Len(text)))
  ELSE <<Head(text)>> \o ReplaceCrLf(Tail(text))

_normalize_linebreaks(text) ==
  CollapseRuns(MapChars(ReplaceCrLf(text), {"\r"}, "\n"), "\n", 3, <<"\n", "\n">>)

\* '\n'.join(lines)
RECURSIVE JoinLines(_)
JoinLines(lines) ==
  IF lines = <<>> THEN <<>>
  ELSE IF Len(lines) = 1 THEN lines[1]
  ELSE lines[1] \o <<"\n">> \o JoinLines(Tail(lines))

_normalize_whitespace(text) ==
  LET lines == split(MapChars(text, {"\t"}, " "), "\n", -1) IN
  JoinLines([i \in 1..Len(lines) |-> CollapseRuns(strip(lines[i]), " ", 2, <<" ">>)])

\* str.lower()
lower(text) ==
  [i \in 1..Len(text) |-> IF text[i] = "A" THEN "a" ELSE text[i]]

\* Normalizer.normalize under the configuration cfg; URL and e-mail removal
\* find nothing in texts without "://", "www." and "@"
normalize(cfg, text) ==
  IF text = <<>> THEN <<>>
  ELSE
    LET t1 == IF cfg.normalize_unicode THEN _normalize_unicode(text) ELSE text
        t2 == IF cfg.remove_control_chars THEN _remove_control_chars(t1) ELSE t1
        t3 == IF cfg.normalize_quotes THEN _normalize_quotes(t2) ELSE t2
        t4 == IF cfg.normalize_dashes THEN _normalize_dashes(t3) ELSE t3
        t5 == IF cfg.normalize_numbers THEN _normalize_numbers(t4) ELSE t4
        t6 == IF cfg.normalize_linebreaks THEN _normalize_linebreaks(t5) ELSE t5
        t7 == IF cfg.normalize_whitespace THEN _normalize_whitespace(t6) ELSE t6
        t8 == IF cfg.lowercase THEN lower(t7) ELSE t7
    IN strip(t8)

get_default_normalizer ==
  [normalize_unicode |-> TRUE, normalize_whitespace |-> TRUE,
   normalize_linebreaks |-> TRUE, normalize_quotes |-> TRUE,
   normalize_dashes |-> TRUE, remove_control_chars |-> TRUE,
   lowercase |-> FALSE, normalize_numbers |-> FALSE]
get_aggressive_normalizer ==
  [get_default_normalizer EXCEPT !.normalize_numbers = TRUE]

NormTexts ==
  Words({"a", " ", "\n"}, MaxTextLen)
    \cup { <<"1", ",", "0", "0", "0", ",", "0", "0", "0">>,
           <<"1", ".", "5">>,
           <<"a", "\r", "\n", "\t", "A">>,
           <<"e", "U+0301", "U+2014", "U+00AB", "U+0007", "U+201A">> }

NormInit ==
  /\ ChatInit
  /\ te_in = NoCall /\ te_out = NoOutcome
  /\ call \in [fn : {"normalize"},
                cfg : {get_default_normalizer, get_aggressive_normalizer},
                text : NormTexts]
  /\ returned = NotReturned
  /\ ObjectsIdle

NormExecute ==
  /\ call.fn = "normalize"
  /\ ~returned.done
  /\ returned' = [done |-> TRUE,
                  once |-> normalize(call.cfg, call.text),
                  twice |-> normalize(call.cfg, normalize(call.cfg, call.text))]
  /\ UNCHANGED << client_vars, te_vars, call, object_vars >>

SpecNorm == NormInit /\ [][NormExecute]_vars

\* C17: normalizing a normalized text changes nothing, for every text and
\* configuration.
C17_Idempotent ==
  returned.done => returned.twice = returned.once

\* ------------------------------------------------------------------------
\* core/conversation_memory.py
\* ------------------------------------------------------------------------
MaxMessages == 2     \* largest max_messages of a memory
MaxAdds == 4         \* messages added to one memory

Message(role, content, metadata) ==
  [role |-> role, content |-> content, metadata |-> metadata]

\* Message.to_dict
Message_to_dict(msg) == [role |-> msg.role, content |-> msg.content]

\* the deque keeps the oldest messages and refuses the new one
deque_append_keep_oldest(d, maxlen, x) ==
  IF Len(d) >= maxlen THEN d ELSE Append(d, x)

\* collections.deque(maxlen=maxlen).append(x)
deque_append(d, maxlen, x) ==
  IF maxlen = 0 THEN d
  ELSE IF Len(d) = maxlen THEN Tail(d) \o <<x>>
  ELSE Append(d, x)

\* ConversationMemory.get_messages(limit, include_metadata=False)
get_messages(mem, limit) ==
  LET all == mem.messages
      recent == IF limit # Null /\ limit.d > 0 /\ limit.d < Len(all)
                  THEN SubSeq(all, Len(all) - limit.d + 1, Len(all))
                  ELSE all
  IN [i \in 1..Len(recent) |-> Message_to_dict(recent[i])]

Contents == {<<"a">>, <<"b">>}
Citations == {<<>>, <<"report.txt">>}

MemoryInit ==
  /\ ChatInit
  /\ te_in = NoCall /\ te_out = NoOutcome
  /\ call = NoArgs /\ returned = NotReturned
  /\ conversation_memory \in [max_messages : 0..MaxMessages, messages : {<<>>}]
  /\ added = <<>>
  /\ widget = NoWidget /\ workers = <<>>
  /\ IndexIdle

MemoryAdd(message) ==
  /\ Len(added) < MaxAdds
  /\ conversation_memory' =
       [conversation_memory EXCEPT
          !.messages = deque_append(@, conversation_memory.max_messages, message)]
  /\ added' = Append(added, message)
  /\ UNCHANGED << client_vars, te_vars, call_vars, widget_vars, index_vars >>

add_user_message ==
  \E content \in Contents : MemoryAdd(Message("user", content, <<>>))

add_assistant_message ==
  \E content \in Contents, citations \in Citations :
    MemoryAdd(Message("assistant", content,
                      IF citations # <<>> THEN <<Entry("citations", citations)>>
                      ELSE <<>>))

MemoryNext == add_user_message \/ add_assistant_message

SpecMemory == MemoryInit /\ [][MemoryNext]_vars

\* the last k elements of s
LastOf(s, k) == SubSeq(s, Len(s) - k + 1, Len(s))
AtMost(a, b) == IF a < b THEN a ELSE b

\* C19: after any sequence of add_user_message / add_assistant_message on
\* a memory with max_messages = M, the history holds at most M messages and
\* is exactly the last min(n, M) of the n messages added, in order.
C19_LastKept ==
  LET M == conversation_memory.max_messages
      kept == LastOf(added, AtMost(Len(added), M))
  IN /\ Len(conversation_memory.messages) <= M
     /\ conversation_memory.messages = kept
     /\ get_messages(conversation_memory, Null)
          = [i \in 1..Len(kept) |-> [role |-> kept[i].role, content |-> kept[i].content]]

C19_Witness ==
  /\ conversation_memory.max_messages = 2
  /\ Len(added) = 4
  /\ added[1].role = "user" /\ added[2].role = "assistant"
  /\ added[3].content # added[4].content
  /\ Len(conversation_memory.messages) = 2

\* ------------------------------------------------------------------------
\* ui/widgets/chat_widget.py, ui/main_window.py
\* ------------------------------------------------------------------------
MaxWorkers == 2      \* ChatWorker threads started
MaxWidgets == 4      \* message widgets shown

\* ChatWidget.__init__ and _setup_input_area; text is whether the input
\* field holds non-blank text, _message_widgets the number of widgets;
\* cleared_at is history: the number of workers started before the last
\* clear_conversation
ChatWidget(agent_client) ==
  [used |-> TRUE, agent_client |-> agent_client, _is_loading |-> FALSE,
   _message_widgets |-> 0, _conversation_history |-> <<>>, worker |-> 0,
   text |-> FALSE, input_field |-> TRUE, send_btn |-> FALSE, cleared_at |-> 0]

\* the text of the n-th query sent, and of the answer to it
QueryText(n) == << "question", n >>
AnswerText(n) == << "answer", n >>

\* ChatWorker.__init__: the thread with the arguments it was given; prior is
\* history: the conversation before this query was sent
ChatWorker(message, history, prior) ==
  [state |-> "running", message |-> message,
   conversation_history |-> history, prior |-> prior]

\* ChatWorker.run, agent_client.chat(message, conversation_history): the
\* message list of the first LLM call
FirstCallMessages(worker) ==
  InitialMessages(worker.conversation_history, worker.message)

\* ChatWidget.set_loading
set_loading(w, is_loading) == [w EXCEPT !._is_loading = is_loading]

\* ChatWidget._on_input_changed, run whenever the input text changes
_on_input_changed(w) ==
  [w EXCEPT !.send_btn = w.text /\ ~w._is_loading]

\* input_field.clear()
ClearInput(w) == _on_input_changed([w EXCEPT !.text = FALSE])

\* ChatWidget.add_user_message
Widget_add_user_message(w) ==
  [w EXCEPT !._message_widgets = @ + 1]

\* ChatWidget.add_assistant_message
Widget_add_assistant_message(w) ==
  [w EXCEPT !._message_widgets = @ + 1, !.input_field = TRUE, !.send_btn = FALSE]

\* ChatWidget.add_error_message
add_error_message(w) ==
  [w EXCEPT !._message_widgets = @ + 1, !.input_field = TRUE]

\* ChatWidget.clear_conversation
clear_conversation(w) ==
  set_loading(
    [ClearInput([w EXCEPT !._message_widgets = 0, !._conversation_history = <<>>])
       EXCEPT !.input_field = TRUE],
    FALSE)

\* a worker is in flight from start() until its response or error is handled
InFlight ==
  {i \in 1..Len(workers) : workers[i].state \in {"running", "response", "error"}}

WidgetInit ==
  /\ ChatInit
  /\ te_in = NoCall /\ te_out = NoOutcome
  /\ call = NoArgs /\ returned = NotReturned
  /\ conversation_memory = NoMemory /\ added = <<>>
  /\ widget \in {ChatWidget(agent_client) : agent_client \in BOOLEAN}
  /\ workers = <<>>
  /\ IndexIdle

WidgetUnchanged ==
  UNCHANGED << client_vars, te_vars, call_vars, memory_vars, index_vars >>

\* the user edits the text of the enabled input field
TypeText ==
  /\ widget.input_field
  /\ \E text \in BOOLEAN :
       /\ text # widget.text
       /\ widget' = _on_input_changed([widget EXCEPT !.text = text])
  /\ UNCHANGED workers
  /\ WidgetUnchanged

\* a click on the enabled send button, or Cmd+Enter in the enabled input
\* field
SendRequested == widget.send_btn \/ widget.input_field

\* ChatWidget._on_send_clicked without an agent
SendUnconfigured ==
  /\ SendRequested
  /\ widget.text /\ ~widget._is_loading
  /\ ~widget.agent_client
  /\ widget._message_widgets < MaxWidgets
  /\ widget' = add_error_message(widget)
  /\ UNCHANGED workers
  /\ WidgetUnchanged

\* ChatWidget._on_send_clicked followed by _process_message_async
_on_send_clicked ==
  /\ SendRequested
  /\ widget.text /\ ~widget._is_loading
  /\ widget.agent_client
  /\ Len(workers) < MaxWorkers
  /\ widget._message_widgets < MaxWidgets
  /\ widget' =
       [set_loading(
          [ClearInput(
             [Widget_add_user_message(widget)
                EXCEPT !._conversation_history =
                         Append(@, TextMessage("user", QueryText(Len(workers) + 1)))])
             EXCEPT !.input_field = FALSE, !.send_btn = FALSE],
          TRUE)
        EXCEPT !.worker = Len(workers) + 1]
  /\ workers' = Append(workers,
                       ChatWorker(QueryText(Len(workers) + 1),
                                  widget'._conversation_history,
                                  widget._conversation_history))
  /\ WidgetUnchanged

\* MainWindow._clear_conversation
_clear_conversation ==
  /\ widget._message_widgets # 0
  /\ widget' = [clear_conversation(widget) EXCEPT !.cleared_at = Len(workers)]
  /\ UNCHANGED workers
  /\ WidgetUnchanged

\* ChatWorker.run ends by emitting response_ready or error_occurred
ChatWorker_run ==
  \E i \in 1..Len(workers), signal \in {"response", "error"} :
    /\ workers[i].state = "running"
    /\ workers' = [workers EXCEPT ![i].state = signal]
    /\ UNCHANGED widget
    /\ WidgetUnchanged

\* ChatWidget._on_response_ready
_on_response_ready ==
  \E i \in 1..Len(workers) :
    /\ workers[i].state = "response"
    /\ widget._message_widgets < MaxWidgets
    /\ widget' =
         set_loading(
           [Widget_add_assistant_message(widget)
              EXCEPT !._conversation_history =
                       Append(@, TextMessage("assistant", AnswerText(i)))],
           FALSE)
    /\ workers' = [workers EXCEPT ![i].state = "handled"]
    /\ WidgetUnchanged

\* ChatWidget._on_error
_on_error ==
  \E i \in 1..Len(workers) :
    /\ workers[i].state = "error"
    /\ widget._message_widgets < MaxWidgets
    /\ widget' = set_loading(add_error_message(widget), FALSE)
    /\ workers' = [workers EXCEPT ![i].state = "handled"]
    /\ WidgetUnchanged

\* ChatWidget._on_worker_finished, for the finished signal of worker i
_on_worker_finished ==
  \E i \in 1..Len(workers) :
    /\ workers[i].state = "handled"
    /\ workers' = [workers EXCEPT ![i].state = "finished"]
    /\ widget' = [widget EXCEPT !.worker = 0]
    /\ WidgetUnchanged

WidgetNext ==
  \/ TypeText
  \/ SendUnconfigured
  \/ _on_send_clicked
  \/ _clear_conversation
  \/ ChatWorker_run
  \/ _on_response_ready
  \/ _on_error
  \/ _on_worker_finished

SpecWidget == WidgetInit /\ [][WidgetNext]_vars

\* C20: at most one query is in flight at any time: from the start of a
\* ChatWorker until its response or error has been handled no second
\* ChatWorker is started.
C20_OneInFlight == Cardinality(InFlight) <= 1

\* C25: in the UI query path the message list of the first LLM call is the
\* prior conversation followed by the new user message exactly once.
C25_MessageOnce ==
  \A i \in 1..Len(workers) :
    FirstCallMessages(workers[i])
      = workers[i].prior \o << [role |-> "user", text |-> workers[i].message,
                                blocks |-> <<>>] >>

\* C26: after clear_conversation the chat history holds only messages of
\* queries sent after the clear: the response of a query in flight at the
\* clear is never appended to the new conversation's history.
C26_OwnMessages ==
  widget.used =>
    \A i \in 1..Len(widget._conversation_history) :
      widget._conversation_history[i].text[2] > widget.cleared_at

\* ------------------------------------------------------------------------
\* indexing/indexer.py, indexing/chromadb_client.py
\* ------------------------------------------------------------------------
\* the Indexer under study: small chunks, no overlap, default normalizer
Indexer ==
  [chunk_size |-> 4, chunk_overlap |-> 0, use_normalization |-> TRUE,
   normalizer |-> get_default_normalizer]

\* the files index_directory discovers, in the order of the listing
DiscoveredFiles == << <<"/docs/a.txt">>, <<"/docs/b.txt">> >>
IndexPaths == {DiscoveredFiles[i] : i \in 1..Len(DiscoveredFiles)}

\* what a path holds: text the reader extracts, an empty file (size 0), or a
\* file whose reader raises FileReadError
IndexTexts == { <<"A", "a", ".">>, <<"A", ".", " ", "B", ".">>, <<" ">> }
FileStates ==
  {[kind |-> "text", text |-> t] : t \in IndexTexts}
    \cup {[kind |-> k, text |-> <<>>] : k \in {"empty", "unreadable"}}

\* ChromaDBClient.generate_document_id: the digest of "<filepath>::<index>",
\* kept as the string that is hashed
generate_document_id(path, chunk_index) == << path, "::", chunk_index >>

\* one stored document with the metadata prepare_metadata gives it
Document(path, chunk) ==
  [id |-> generate_document_id(path, chunk.chunk_index),
   document |-> chunk.text, filepath |-> path, chunk_index |-> chunk.chunk_index]

Ids(coll) == {d.id : d \in coll}

\* ChromaDBClient.add_documents. collection.add either raises (outcome
\* "raise"), or meets ids it already holds and, depending on the library
\* version, raises ("reject_existing") or keeps the stored documents and
\* adds only the new ids ("ignore_existing")
add_documents(coll, documents, outcome) ==
  IF documents = {} \/ outcome = "raise" THEN [success |-> FALSE, coll |-> coll]
  ELSE IF outcome = "reject_existing" /\ Ids(documents) \cap Ids(coll) # {}
    THEN [success |-> FALSE, coll |-> coll]
  ELSE [success |-> TRUE,
        coll |-> coll \cup {d \in documents : d.id \notin Ids(coll)}]

\* ChromaDBClient.delete_by_filepath
delete_by_filepath(coll, path, outcome) ==
  IF outcome = "raise" THEN [success |-> FALSE, coll |-> coll]
  ELSE [success |-> TRUE, coll |-> {d \in coll : d.filepath # path}]

\* the dict index_file returns; has_error is whether it has the key 'error'
FileResult(success, skipped, has_error, error, chunks_created) ==
  [success |-> success, skipped |-> skipped, has_error |-> has_error,
   error |-> error, chunks_created |-> chunks_created]

\* Indexer.index_file: the dict returned, the collection afterwards and the
\* chunks it handed to the collection
index_file(path, file, coll, outcome) ==
  IF file.kind = "empty"
    THEN [ret |-> FileResult(FALSE, TRUE, FALSE, "Empty file", 0),
          coll |-> coll, chunks |-> <<>>]
  ELSE IF file.kind = "unreadable"
    THEN [ret |-> FileResult(FALSE, FALSE, TRUE, "FileReadError", 0),
          coll |-> coll, chunks |-> <<>>]
  ELSE IF file.text = <<>> \/ strip(file.text) = <<>>
    THEN [ret |-> FileResult(FALSE, FALSE, TRUE, "No text extracted from file", 0),
          coll |-> coll, chunks |-> <<>>]
  ELSE
    LET text == IF Indexer.use_normalization
                  THEN normalize(Indexer.normalizer, file.text) ELSE file.text
        chunks == chunk_text(text, Indexer.chunk_size, Indexer.chunk_overlap, TRUE)
        stored == add_documents(coll,
                                {Document(path, chunks[i]) : i \in 1..Len(chunks)},
                                outcome)
    IN IF chunks = <<>>
         THEN [ret |-> FileResult(FALSE, FALSE, TRUE, "No chunks created from text", 0),
               coll |-> coll, chunks |-> <<>>]
       ELSE IF ~stored.success
         THEN [ret |-> FileResult(FALSE, FALSE, TRUE, "Failed to store in ChromaDB", 0),
               coll |-> coll, chunks |-> <<>>]
       ELSE [ret |-> FileResult(TRUE, FALSE, FALSE, "", Len(chunks)),
             coll |-> stored.coll,
             chunks |-> [i \in 1..Len(chunks) |-> chunks[i].text]]

AddOutcomes == {"ignore_existing", "reject_existing", "raise"}

IndexInit ==
  /\ ChatInit
  /\ te_in = NoCall /\ te_out = NoOutcome
  /\ call = NoArgs /\ returned = NotReturned
  /\ conversation_memory = NoMemory /\ added = <<>>
  /\ widget = NoWidget /\ workers = <<>>
  /\ disk \in [IndexPaths -> FileStates]
  /\ collection = {}
  /\ batch = NoBatch
  /\ latest = [path \in IndexPaths |-> <<>>]

IndexUnchanged ==
  UNCHANGED << client_vars, te_vars, call_vars, memory_vars, widget_vars >>

\* the user replaces the content of a file
WriteFile ==
  \E path \in IndexPaths, file \in FileStates :
    /\ disk[path] # file
    /\ disk' = [disk EXCEPT ![path] = file]
    /\ UNCHANGED << collection, batch, latest >>
    /\ IndexUnchanged

\* Indexer.index_directory up to the loop: a fresh IndexingResult and the
\* discovered files
index_directory ==
  /\ ~batch.active
  /\ batch' = [active |-> TRUE, done |-> FALSE, files |-> DiscoveredFiles, i |-> 0,
               files_processed |-> 0, files_failed |-> 0, chunks_created |-> 0,
               errors |-> <<>>, attempted |-> <<>>]
  /\ UNCHANGED << disk, collection, latest >>
  /\ IndexUnchanged

\* one iteration of index_directory's loop
IndexNextFile ==
  /\ batch.active /\ ~batch.done /\ batch.i < Len(batch.files)
  /\ \E outcome \in AddOutcomes :
       \E r \in {index_file(batch.files[batch.i + 1],
                             disk[batch.files[batch.i + 1]], collection, outcome)} :
         /\ collection' = r.coll
         /\ latest' = IF r.ret.success
                         THEN [latest EXCEPT ![batch.files[batch.i + 1]] = r.chunks]
                         ELSE latest
         /\ batch' =
              [batch EXCEPT
                 !.i = @ + 1,
                 !.files_processed = IF r.ret.success THEN @ + 1 ELSE @,
                 !.chunks_created = IF r.ret.success THEN @ + r.ret.chunks_created ELSE @,
                 !.files_failed = IF r.ret.success THEN @ ELSE @ + 1,
                 !.errors = IF ~r.ret.success /\ r.ret.has_error
                              THEN Append(@, << batch.files[batch.i + 1], r.ret.error >>)
                              ELSE @,
                 !.attempted = Append(@, [path |-> batch.files[batch.i + 1],
                                          success |-> r.ret.success])]
  /\ UNCHANGED disk
  /\ IndexUnchanged

\* the loop is over: mark_complete and return
IndexDirectoryReturn ==
  /\ batch.active /\ ~batch.done /\ batch.i = Len(batch.files)
  /\ batch' = [batch EXCEPT !.done = TRUE]
  /\ UNCHANGED << disk, collection, latest >>
  /\ IndexUnchanged

\* the caller drops the result; another index_directory may start
IndexDirectoryForget ==
  /\ batch.active /\ batch.done
  /\ batch' = NoBatch
  /\ UNCHANGED << disk, collection, latest >>
  /\ IndexUnchanged

\* Indexer.remove_file
remove_file ==
  /\ ~batch.active
  /\ \E path \in IndexPaths, outcome \in {"ok", "raise"} :
       \E r \in {delete_by_filepath(collection, path, outcome)} :
         /\ collection' = r.coll
         /\ latest' = IF r.success THEN [latest EXCEPT ![path] = <<>>] ELSE latest
  /\ UNCHANGED << disk, batch >>
  /\ IndexUnchanged

IndexNext ==
  \/ WriteFile
  \/ index_directory
  \/ IndexNextFile
  \/ IndexDirectoryReturn
  \/ IndexDirectoryForget
  \/ remove_file

SpecIndex == IndexInit /\ [][IndexNext]_vars

\* the paths that have an entry in the result's errors list
Recorded == {batch.errors[i][1] : i \in 1..Len(batch.errors)}

\* C21: a failing file does not stop the batch: every discovered file is
\* attempted, files_processed + files_failed = N at the end, and every
\* file that was not indexed has an entry in the result's errors list.
C21_BatchRecorded ==
  (batch.active /\ batch.done) =>
    /\ [i \in 1..Len(batch.attempted) |-> batch.attempted[i].path] = batch.files
    /\ batch.files_processed + batch.files_failed = Len(batch.files)
    /\ \A i \in 1..Len(batch.attempted) :
         ~batch.attempted[i].success => batch.attempted[i].path \in Recorded

\* the documents stored for a path, by chunk index
StoredFor(path) ==
  {<< d.chunk_index, d.document >> : d \in {e \in collection : e.filepath = path}}

\* C29: the chunks stored for a filepath are exactly the chunks of the most
\* recent successful index_file of that path.
C29_LatestStored ==
  (batch # NoBatch \/ collection # {} \/ latest # <<>>) =>
    \A path \in DOMAIN latest :
      StoredFor(path) = {<< i - 1, latest[path][i] >> : i \in 1..Len(latest[path])}

====
